---- MODULE Spec2Model ----
(***************************************************************************)
(* Model of the realtime collaborative Markdown editor:                   *)
(*   - backend/crdt/node.py       Position, CRDTNode, CRDTOperation       *)
(*   - backend/crdt/sequence.py   SequenceCRDT (dense Logoot positions)   *)
(*   - backend/crdt/optimized_crdt.py OptimizedSequenceCRDT (string ids)  *)
(*   - backend/optimized_ws_manager.py OptimizedConnectionManager         *)
(*   - backend/main.py            websocket_endpoint                      *)
(*   - backend/ws_manager.py      ConnectionManager (not used by main.py) *)
(*                                                                         *)
(* The coroutines of the manager run on one event loop: a task runs from  *)
(* one await that suspends it (accept, close, send_text, receive_text,    *)
(* sleep) to the next, and tasks interleave only there.                   *)
(*                                                                         *)
(* Python strings that are compared with < (site tags, node ids) are      *)
(* modelled as sequences of code points so that the comparison is the     *)
(* lexicographic one Python performs.  Character values are modelled as   *)
(* sequences of one-character strings so that "".join() is concatenation. *)
(***************************************************************************)
EXTENDS Integers, Sequences, FiniteSets, TLC

VARIABLES
    nodes,      \* SequenceCRDT.nodes      (list of CRDTNode)
    clock,      \* SequenceCRDT.clock
    last,       \* the last call on the SequenceCRDT: arguments and outcome
    convNodes,  \* replica -> SequenceCRDT.nodes, fresh replicas fed by apply_remote
    convDone,   \* replica -> set of operations that replica has processed
    crdt,       \* an OptimizedSequenceCRDT: sequence, tombstones, version,
                \*   last_compaction, operations_since_compaction
    copy,       \* <<>> or <<from_dict(to_dict(crdt))>>, given every later call crdt is given
    now,        \* time.time(), seconds since crdt was constructed
    deferred,   \* ids whose insert arrived after a delete that found no node
    optNodes,   \* replica -> OptimizedSequenceCRDT, fresh replicas fed by apply_remote
    optDone,    \* replica -> set of operations that replica has processed
    srv,        \* the OptimizedConnectionManager, the sockets and the endpoint tasks
    legacy,     \* the ConnectionManager of ws_manager.py and its sockets
    compared    \* three Positions and the outcomes of their comparisons

seqVars == <<nodes, clock, last>>
convVars == <<convNodes, convDone>>
optVars == <<crdt, copy, now, deferred>>
optConvVars == <<optNodes, optDone>>
mgrVars == <<srv, legacy>>
posVars == <<compared>>
vars == <<nodes, clock, last, convNodes, convDone, crdt, copy, now, deferred, optNodes, optDone,
          srv, legacy, compared>>

----------------------------------------------------------------------------
(* Bounds of the model *)

\* largest value of SequenceCRDT.clock the model explores (number of local inserts)
MaxClock == 1
\* OptimizedSequenceCRDT: local inserts made, calls explored from one counter
\* value, seconds of time explored
MaxVersion == 1
MaxOps == 2
MaxTime == 300
\* the messages the clients send, all together
MaxMsgs == 2
\* the clients that close their sockets
MaxCloses == 1
\* the operations of one burst
MaxBurst == 3
\* the seconds the event loop is followed for
MgrMaxTime == 8
\* the length of the longest string a client puts into one node, and the
\* number of such nodes the clients insert
BigLen == 1000000
MaxBig == 6
\* Position: the longest identifier list and the largest identifier compared
MaxDepth == 2
MaxIdentifier == 1

----------------------------------------------------------------------------
(* Python strings as code point sequences *)

Min(a, b) == IF a < b THEN a ELSE b
Max(a, b) == IF a < b THEN b ELSE a

\* str.__lt__ : lexicographic order on code points, a proper prefix is smaller
StrLT(s, t) ==
    LET n == Min(Len(s), Len(t))
        diff == {i \in 1..n : s[i] # t[i]}
    IN  IF diff # {}
        THEN LET d == CHOOSE i \in diff : \A j \in diff : i <= j
             IN  s[d] < t[d]
        ELSE Len(s) < Len(t)

\* str(n) for a natural number n, as code points ("0" is 48)
RECURSIVE Digits(_)
Digits(n) == IF n < 10 THEN <<48 + n>> ELSE Digits(n \div 10) \o <<48 + (n % 10)>>

\* "A", "B", "C" : site ids of the local replica and of two remote ones
SiteA == <<65>>
SiteB == <<66>>
SiteC == <<67>>
\* "BEGIN" and "END"
StrBEGIN == <<66, 69, 71, 73, 78>>
StrEND == <<69, 78, 68>>
\* f"{site_id}_{clock}"
SiteTag(site_id, clk) == site_id \o <<95>> \o Digits(clk)

----------------------------------------------------------------------------
(* node.py *)

Position(identifiers, site_id) == [identifiers |-> identifiers, site_id |-> site_id]

\* a __lt__ that stops at the identifier lists and never looks at site_id
PosLTIdentifiersOnly(self, other) ==
    LET min_len == Min(Len(self.identifiers), Len(other.identifiers))
        diff == {i \in 1..min_len : self.identifiers[i] # other.identifiers[i]}
    IN  IF diff # {}
        THEN LET d == CHOOSE i \in diff : \A j \in diff : i <= j
             IN  self.identifiers[d] < other.identifiers[d]
        ELSE Len(self.identifiers) < Len(other.identifiers)

\* Position.__lt__
PosLT(self, other) ==
    LET min_len == Min(Len(self.identifiers), Len(other.identifiers))
        diff == {i \in 1..min_len : self.identifiers[i] # other.identifiers[i]}
    IN  IF diff # {}
        THEN LET d == CHOOSE i \in diff : \A j \in diff : i <= j
             IN  self.identifiers[d] < other.identifiers[d]
        ELSE IF Len(self.identifiers) # Len(other.identifiers)
             THEN Len(self.identifiers) < Len(other.identifiers)
             ELSE StrLT(self.site_id, other.site_id)

\* Position.__eq__
PosEQ(self, other) ==
    self.identifiers = other.identifiers /\ self.site_id = other.site_id

\* the record of a comparison: the Positions and the outcomes of < and ==
NotCompared == [args |-> <<>>, lt |-> <<>>, eq |-> <<>>]

CRDTNode(position, value, visible) ==
    [position |-> position, value |-> value, visible |-> visible]

\* CRDTOperation(op_type, node, origin)
CRDTOperation(op_type, node, origin) ==
    [type |-> op_type, node |-> node, origin |-> origin]

----------------------------------------------------------------------------
(* sequence.py : construction *)

\* 2**31 - 1, the END sentinel's identifier
EndIdentifier == 2147483647
\* 2**16, the upper end of the random identifier of a deeper level
RandMax == 65536

BeginNode == CRDTNode(Position(<<0>>, StrBEGIN), <<>>, FALSE)
EndNode == CRDTNode(Position(<<EndIdentifier>>, StrEND), <<>>, FALSE)

\* SequenceCRDT._add_boundary_nodes
BoundaryNodes == <<BeginNode, EndNode>>

\* the visible nodes, in list order
VisibleNodes(ns) == SelectSeq(ns, LAMBDA n : n.visible)

\* SequenceCRDT.get_visible_length
VisibleLength(ns) == Len(VisibleNodes(ns))

RECURSIVE Concat(_)
Concat(ss) == IF ss = <<>> THEN <<>> ELSE Head(ss) \o Concat(Tail(ss))

\* SequenceCRDT.get_text
GetText(ns) == Concat([i \in 1..VisibleLength(ns) |-> VisibleNodes(ns)[i].value])

\* bisect.bisect_left(a, x) with CRDTNode.__lt__, the binary search of the library
RECURSIVE BisectLoop(_, _, _, _)
BisectLoop(a, x, lo, hi) ==
    IF lo < hi
    THEN LET mid == (lo + hi) \div 2
         IN  IF PosLT(a[mid + 1].position, x.position)
             THEN BisectLoop(a, x, mid + 1, hi)
             ELSE BisectLoop(a, x, lo, mid)
    ELSE lo

\* a bisect that answers the index after the last node that is greater than x,
\* as a search of a list in descending order would
BisectLeftDescending(a, x) ==
    LET greater == {i \in 1..Len(a) : PosLT(x.position, a[i].position)}
    IN  IF greater = {} THEN 0 ELSE CHOOSE i \in greater : \A j \in greater : j <= i

BisectLeft(a, x) == BisectLoop(a, x, 0, Len(a))

\* list.insert(i, x) for 0 <= i <= len
ListInsert(a, i, x) == SubSeq(a, 1, i) \o <<x>> \o SubSeq(a, i + 1, Len(a))

----------------------------------------------------------------------------
(* sequence.py : position generation *)

\* the outcomes of random.randint(lo, hi) the model explores: both ends of the range
\* (every call site has lo <= hi)
RandInt(lo, hi) == {lo, hi}

\* the depth at which two identifier lists first differ (length of the common prefix)
CommonDepth(a, b) ==
    LET n == Min(Len(a), Len(b))
        diff == {i \in 1..n : a[i] # b[i]}
    IN  IF diff = {} THEN n
        ELSE (CHOOSE i \in diff : \A j \in diff : i <= j) - 1

\* the identifier lists SequenceCRDT._generate_position_between can build
NewIdentifiers(pos1, pos2) ==
    LET a == pos1.identifiers
        b == pos2.identifiers
        depth == CommonDepth(a, b)
        prefix == SubSeq(a, 1, depth)
    IN  IF depth < Len(a) /\ depth < Len(b)
        THEN LET left_id == a[depth + 1]
                 right_id == b[depth + 1]
             IN  IF right_id - left_id > 1
                 THEN {prefix \o <<r>> : r \in RandInt(left_id + 1, right_id - 1)}
                 ELSE {prefix \o <<left_id>> \o SubSeq(a, depth + 2, Len(a)) \o <<r>> :
                          r \in RandInt(1, RandMax)}
        ELSE IF depth < Len(a)
        THEN {prefix \o SubSeq(a, depth + 1, Len(a)) \o <<r>> : r \in RandInt(1, RandMax)}
        ELSE IF depth < Len(b)
        THEN LET right_id == b[depth + 1]
             IN  IF right_id > 1
                 THEN {prefix \o <<r>> : r \in RandInt(1, right_id - 1)}
                 ELSE {prefix \o <<0, r>> : r \in RandInt(1, RandMax)}
        ELSE {prefix \o <<r>> : r \in RandInt(1, RandMax)}

\* SequenceCRDT._generate_position_between, called with self.clock already incremented
GeneratePositionBetween(pos1, pos2, site_id, clk) ==
    {Position(ids, SiteTag(site_id, clk)) : ids \in NewIdentifiers(pos1, pos2)}

----------------------------------------------------------------------------
(* sequence.py : remote operations *)

\* the indices of the nodes whose position equals pos
Matches(ns, pos) == {i \in 1..Len(ns) : PosEQ(ns[i].position, pos)}

FirstMatch(ns, pos) == CHOOSE i \in Matches(ns, pos) : \A j \in Matches(ns, pos) : i <= j

\* _apply_remote_insert without its "node already exists" loop
ApplyRemoteInsertNoLookup(ns, node) == ListInsert(ns, BisectLeft(ns, node), node)

\* SequenceCRDT._apply_remote_insert
ApplyRemoteInsert(ns, node) ==
    IF Matches(ns, node.position) # {}
    THEN [ns EXCEPT ![FirstMatch(ns, node.position)].visible = node.visible]
    ELSE ListInsert(ns, BisectLeft(ns, node), node)

\* SequenceCRDT._apply_remote_delete
ApplyRemoteDelete(ns, node) ==
    IF Matches(ns, node.position) # {}
    THEN [ns EXCEPT ![FirstMatch(ns, node.position)].visible = FALSE]
    ELSE ns

\* the value SequenceCRDT.apply_remote returns
ApplyRemoteResult(ns, op) ==
    IF op.type = "insert" THEN "True"
    ELSE IF op.type = "delete"
         THEN (IF Matches(ns, op.node.position) # {} THEN "True" ELSE "False")
         ELSE "ValueError"

\* SequenceCRDT.apply_remote : the node list afterwards
ApplyRemote(ns, op) ==
    IF op.type = "insert" THEN ApplyRemoteInsert(ns, op.node)
    ELSE IF op.type = "delete" THEN ApplyRemoteDelete(ns, op.node)
    ELSE ns

----------------------------------------------------------------------------
(* sequence.py : local operations *)

\* the list index (from 1) of the k-th visible node, k from 1
ListIndexOfVisible(ns, k) ==
    CHOOSE i \in 1..Len(ns) :
        ns[i].visible /\ Cardinality({j \in 1..i : ns[j].visible}) = k

\* local_insert's bounds check: true when the call goes on
InsertIndexOk(ns, index) == ~(index < 0 \/ index > VisibleLength(ns))

\* local_insert: the position to the left of the new one
InsertPos1(ns, index) ==
    LET visible_nodes == VisibleNodes(ns)
    IN  IF index = 0 THEN ns[1].position
        ELSE visible_nodes[index].position

\* local_insert: the position to the right of the new one
InsertPos2(ns, index) ==
    LET visible_nodes == VisibleNodes(ns)
    IN  IF index = 0
        THEN (IF visible_nodes # <<>> THEN visible_nodes[1].position ELSE ns[2].position)
        ELSE IF index = Len(visible_nodes) THEN ns[Len(ns)].position
        ELSE visible_nodes[index + 1].position

\* local_delete's bounds check without its "index < 0" half
DeleteIndexOkNoLowerBound(ns, index) == ~(index >= VisibleLength(ns))

\* local_delete's bounds check: true when the call goes on
DeleteIndexOk(ns, index) == ~(index < 0 \/ index >= VisibleLength(ns))

\* visible_nodes[index] of Python: a negative index counts from the end; 0 when
\* the index is outside the list (IndexError)
PyListIndex(len, index) ==
    IF 0 <= index /\ index < len THEN index + 1
    ELSE IF index < 0 /\ -index <= len THEN len + index + 1
    ELSE 0

\* what records a call on the SequenceCRDT leaves in "last"
NoPosition == Position(<<>>, <<>>)
NoOperation == CRDTOperation("none", CRDTNode(NoPosition, <<>>, FALSE), <<>>)

\* op: the method called; raised: it raised an exception; ret: the operation returned
Call(op, raised, ret) == [op |-> op, raised |-> raised, ret |-> ret]

----------------------------------------------------------------------------
(* sequence.py : merge_with *)

RECURSIVE MergeLoop(_, _, _, _)
MergeLoop(ns, other, k, self_positions) ==
    IF k > Len(other) THEN ns
    ELSE LET other_node == other[k]
             differs == {i \in 1..Len(ns) :
                            /\ PosEQ(ns[i].position, other_node.position)
                            /\ ns[i].visible # other_node.visible}
             op == CRDTOperation(IF other_node.visible THEN "insert" ELSE "delete",
                                 other_node, SiteB)
         IN  IF other_node.position \notin self_positions
             THEN MergeLoop(ApplyRemote(ns, CRDTOperation("insert", other_node, SiteB)),
                            other, k + 1, self_positions)
             ELSE IF differs # {}
             THEN MergeLoop(ApplyRemote(ns, op), other, k + 1, self_positions)
             ELSE MergeLoop(ns, other, k + 1, self_positions)

\* SequenceCRDT.merge_with : the node list afterwards
MergeWith(ns, other) ==
    MergeLoop(ns, other, 1, {ns[i].position : i \in 1..Len(ns)})

----------------------------------------------------------------------------
(* optimized_crdt.py : CRDTNode, construction, get_text *)

\* str() of an integer
IntStr(n) == IF n < 0 THEN <<45>> \o Digits(0 - n) ELSE Digits(n)

\* OptimizedSequenceCRDT.compaction_threshold
compaction_threshold == 1000
\* _compact: the minimum number of seconds between two compactions
MinCompactionInterval == 60
\* _compact: the age in seconds beyond which an invisible node is removed
TombstoneMaxAge == 300

\* optimized_crdt.CRDTNode
OptCRDTNode(id, char, visible, timestamp) ==
    [id |-> id, char |-> char, visible |-> visible, timestamp |-> timestamp]

\* OptimizedSequenceCRDT.__init__ at time t
OptNew(site_id, t) ==
    [site_id |-> site_id, sequence |-> <<>>, tombstones |-> {}, version |-> 0,
     last_compaction |-> t, operations_since_compaction |-> 0]

\* the test get_text, insert and delete make of a node: visible and not a tombstone
Shown(c, n) == n.visible /\ n.id \notin c.tombstones

\* OptimizedSequenceCRDT.get_text
OptGetText(c) ==
    LET chars == SelectSeq(c.sequence, LAMBDA n : Shown(c, n))
    IN  Concat([i \in 1..Len(chars) |-> chars[i].char])

\* the least element of a non-empty set of integers
Least(S) == CHOOSE i \in S : \A j \in S : i <= j

\* _find_insert_position that always answers len(self.sequence)
FindInsertPositionAppend(sequence, node_id) == Len(sequence)

\* OptimizedSequenceCRDT._find_insert_position : a list index from 0
FindInsertPosition(sequence, node_id) ==
    LET later == {i \in 1..Len(sequence) : StrLT(node_id, sequence[i].id)}
    IN  IF later = {} THEN Len(sequence) ELSE Least(later) - 1

----------------------------------------------------------------------------
(* optimized_crdt.py : _compact *)

\* a _compact that forgets every tombstone
CompactForgetsTombstones(c, t) ==
    IF t - c.last_compaction < MinCompactionInterval THEN c
    ELSE [c EXCEPT !.sequence = SelectSeq(@, LAMBDA n : n.visible \/ n.timestamp > t - TombstoneMaxAge),
                   !.tombstones = {},
                   !.last_compaction = t,
                   !.operations_since_compaction = 0]

\* OptimizedSequenceCRDT._compact at time t
Compact(c, t) ==
    IF t - c.last_compaction < MinCompactionInterval THEN c
    ELSE LET cutoff_time == t - TombstoneMaxAge
             Keep(n) == n.visible \/ n.timestamp > cutoff_time
             removed_tombstones ==
                 {c.sequence[i].id : i \in {j \in 1..Len(c.sequence) : ~Keep(c.sequence[j])}}
         IN  [c EXCEPT !.sequence = SelectSeq(@, Keep),
                       !.tombstones = @ \ removed_tombstones,
                       !.last_compaction = t,
                       !.operations_since_compaction = 0]

\* "if self.operations_since_compaction >= self.compaction_threshold: self._compact()"
CheckCompaction(c, t) ==
    IF c.operations_since_compaction >= compaction_threshold THEN Compact(c, t) ELSE c

----------------------------------------------------------------------------
(* optimized_crdt.py : insert, delete *)

\* the list index (from 0) at which insert(position, char) puts the new node
InsertIdx(c, position) ==
    LET VisiblePos(i) == Cardinality({j \in 1..i : Shown(c, c.sequence[j])})
        stops == {i \in 0..(Len(c.sequence) - 1) : VisiblePos(i) = position}
    IN  IF stops = {} THEN Len(c.sequence) ELSE Least(stops)

\* the node insert(position, char) creates at time t
InsertNode(c, position, char, t) ==
    OptCRDTNode(c.site_id \o <<58>> \o Digits(c.version) \o <<58>> \o IntStr(position),
                char, TRUE, t)

\* OptimizedSequenceCRDT.insert at time t : the object afterwards
OptInsert(c, position, char, t) ==
    CheckCompaction(
        [c EXCEPT !.version = @ + 1,
                  !.sequence = ListInsert(@, InsertIdx(c, position),
                                          InsertNode(c, position, char, t)),
                  !.operations_since_compaction = @ + 1], t)

\* the list indices (from 1) of the node delete(position) marks: one or none
DeleteTargets(c, position) ==
    LET shown == {i \in 1..Len(c.sequence) : Shown(c, c.sequence[i])}
    IN  {i \in shown : Cardinality({j \in shown : j < i}) = position}

\* OptimizedSequenceCRDT.delete at time t : the object afterwards
OptDelete(c, position, t) ==
    IF DeleteTargets(c, position) = {} THEN c
    ELSE LET i == Least(DeleteTargets(c, position))
         IN  CheckCompaction(
                 [c EXCEPT !.tombstones = @ \cup {c.sequence[i].id},
                           !.sequence = [@ EXCEPT ![i].visible = FALSE],
                           !.operations_since_compaction = @ + 1], t)

----------------------------------------------------------------------------
(* optimized_crdt.py : apply_remote *)

\* apply_remote, "insert" branch; a dict is a record, its keys the record's DOMAIN
OptApplyRemoteInsert(c, operation, t) ==
    IF "node" \notin DOMAIN operation THEN c
    ELSE LET node_data == operation.node
             keys == DOMAIN node_data \ {"position"}
         IN  IF "id" \notin keys \/ "char" \notin keys THEN c
             ELSE IF ~(keys \subseteq {"id", "char", "visible", "timestamp"}) THEN c
             ELSE LET node == OptCRDTNode(node_data.id, node_data.char,
                                  IF "visible" \in keys THEN node_data.visible ELSE TRUE,
                                  IF "timestamp" \in keys THEN node_data.timestamp ELSE t)
                  IN  IF \E i \in 1..Len(c.sequence) : c.sequence[i].id = node.id THEN c
                      ELSE CheckCompaction(
                               [c EXCEPT !.sequence = ListInsert(@,
                                             FindInsertPosition(c.sequence, node.id), node),
                                         !.operations_since_compaction = @ + 1], t)

\* apply_remote, "delete" branch: the id the operation names, "" when it names none
DeleteNodeId(operation) ==
    IF "node_id" \in DOMAIN operation /\ operation.node_id # <<>> THEN operation.node_id
    ELSE IF "node" \in DOMAIN operation /\ "id" \in DOMAIN operation.node
         THEN operation.node.id
         ELSE <<>>

\* apply_remote, "delete" branch
OptApplyRemoteDelete(c, operation, t) ==
    LET node_id == DeleteNodeId(operation)
        hits == {i \in 1..Len(c.sequence) : c.sequence[i].id = node_id}
    IN  IF node_id = <<>> THEN c
        ELSE CheckCompaction(
                 [c EXCEPT !.tombstones = @ \cup {node_id},
                           !.sequence = IF hits = {} THEN @
                                        ELSE [@ EXCEPT ![Least(hits)].visible = FALSE],
                           !.operations_since_compaction = @ + 1], t)

\* OptimizedSequenceCRDT.apply_remote at time t : the object afterwards
OptApplyRemote(c, operation, t) ==
    IF "type" \notin DOMAIN operation THEN c
    ELSE IF operation.type = "insert" THEN OptApplyRemoteInsert(c, operation, t)
    ELSE IF operation.type = "delete" THEN OptApplyRemoteDelete(c, operation, t)
    ELSE c

----------------------------------------------------------------------------
(* optimized_crdt.py : to_dict, from_dict *)

\* list(a_set): the elements in some order
RECURSIVE SetToList(_)
SetToList(S) ==
    IF S = {} THEN <<>>
    ELSE LET x == CHOOSE y \in S : TRUE IN <<x>> \o SetToList(S \ {x})

\* OptimizedSequenceCRDT.to_dict
ToDict(c) ==
    [site_id |-> c.site_id, version |-> c.version,
     sequence |-> [i \in 1..Len(c.sequence) |->
                      [id |-> c.sequence[i].id, char |-> c.sequence[i].char,
                       visible |-> c.sequence[i].visible,
                       timestamp |-> c.sequence[i].timestamp]],
     tombstones |-> SetToList(c.tombstones)]

\* OptimizedSequenceCRDT.from_dict at time t
FromDict(data, t) ==
    [OptNew(data.site_id, t) EXCEPT
        !.version = data.version,
        !.sequence = [i \in 1..Len(data.sequence) |->
                         OptCRDTNode(data.sequence[i].id, data.sequence[i].char,
                                     data.sequence[i].visible, data.sequence[i].timestamp)],
        !.tombstones = {data.tombstones[i] : i \in 1..Len(data.tombstones)}]

----------------------------------------------------------------------------
(* The environment of one SequenceCRDT replica (site "A") *)

\* the character the local user types
LocalValues == {<<"x">>}

\* characters inserted at two remote sites; both drew the identifier 5
NodeB == CRDTNode(Position(<<5>>, SiteTag(SiteB, 1)), <<"b">>, TRUE)
NodeC == CRDTNode(Position(<<5>>, SiteTag(SiteC, 1)), <<"c">>, TRUE)
RemoteNodes == {NodeB, NodeC}

\* the nodes an operation on the wire can name: the remote characters and every
\* node the replica holds (a re-delivered or echoed operation; nothing validates
\* that an operation does not name a sentinel's position)
KnownNodes(ns) == RemoteNodes \cup {ns[i] : i \in 1..Len(ns)}

\* CRDTOperation.from_dict of the messages the replica can receive
WireOps(ns) ==
    {CRDTOperation("insert", [n EXCEPT !.visible = TRUE], SiteB) : n \in KnownNodes(ns)}
    \cup {CRDTOperation("delete", [n EXCEPT !.visible = FALSE], SiteB) : n \in KnownNodes(ns)}

\* the least node of a non-empty set, by CRDTNode.__lt__
LeastNode(S) == CHOOSE n \in S : \A m \in S : m = n \/ PosLT(n.position, m.position)

RECURSIVE SortedNodes(_)
SortedNodes(S) ==
    IF S = {} THEN <<>> ELSE <<LeastNode(S)>> \o SortedNodes(S \ {LeastNode(S)})

\* node lists of another replica that merge_with can be given
OtherReplicas ==
    {<<BeginNode>> \o SortedNodes(S) \o <<EndNode>> :
        S \in {T \in SUBSET {[n EXCEPT !.visible = v] : n \in RemoteNodes, v \in BOOLEAN} :
                  \A m, n \in T : PosEQ(m.position, n.position) => m = n}}

----------------------------------------------------------------------------
(* The environment of one OptimizedSequenceCRDT (site "s") *)

OptSite == <<115>>

\* ids of characters inserted at two remote sites: "a:0:0" and "t:0:0"
IdA == <<97, 58, 48, 58, 48>>
IdT == <<116, 58, 48, 58, 48>>

\* the insert of "a:0:0" as its site's insert() returned it at time 0
InsA == [type |-> "insert", position |-> 0,
         node |-> [id |-> IdA, char |-> <<"a">>, visible |-> TRUE, timestamp |-> 0]]
\* an insert of "a:0:0" that carries another character
InsA2 == [type |-> "insert", position |-> 0,
          node |-> [id |-> IdA, char |-> <<"z">>, visible |-> TRUE, timestamp |-> 0]]
\* the insert of "t:0:0" without the optional fields
InsT == [type |-> "insert", node |-> [id |-> IdT, char |-> <<"t">>]]
\* the deletes of both, one in the current and one in the old format
DelA == [type |-> "delete", node_id |-> IdA, position |-> 0]
DelT == [type |-> "delete", node |-> [id |-> IdT]]

\* the messages the object can receive: the insert and the delete of "a:0:0",
\* the inserts and deletes of every node it holds (re-delivered or echoed), and
\* a message of another type
OptWireOps(c) ==
    {InsA, DelA, [type |-> "cursor"]}
    \cup {[type |-> "insert", node |-> c.sequence[i]] : i \in 1..Len(c.sequence)}
    \cup {[type |-> "delete", node_id |-> c.sequence[i].id] : i \in 1..Len(c.sequence)}

----------------------------------------------------------------------------
(* optimized_ws_manager.py : the state of OptimizedConnectionManager *)

\* OptimizedConnectionManager.save_delay, in seconds
save_delay == 5
\* OptimizedConnectionManager.max_connections_per_document
max_connections_per_document == 50
\* OptimizedConnectionManager.max_total_connections
max_total_connections == 500
\* OptimizedConnectionManager.max_cached_crdts
max_cached_crdts == 20
\* OptimizedConnectionManager.max_crdt_size, in bytes
max_crdt_size == 1048576
\* _save_document_state: the largest state that is written, in bytes
MaxPersistedBytes == 5242880
\* _send_initial_state: the largest state that is sent uncompressed, in bytes
CompressAbove == 10240

\* the sockets whose endpoint tasks are followed step by step
Conns == {1, 2, 3}
\* the documents they open
Docs == {1, 2}
\* other documents of the database, opened only by connections that come and go
FillerDocs == {100 + i : i \in 1..max_cached_crdts}

\* site_id of a connection: f"{user.id if user else 'guest'}_{uuid4().hex[:8]}"
SiteOf(c) == <<103, 95, 48 + c>>

\* the sum of f over a finite set
RECURSIVE SumOver(_, _)
SumOver(S, f) ==
    IF S = {} THEN 0
    ELSE LET x == CHOOSE y \in S : TRUE IN f[x] + SumOver(S \ {x}, f)

\* a run of BigLen characters "x" of a Python string, written as one element
BigRun == "x * BigLen"

\* len() of a Python string
StrLen(s) == SumOver(1..Len(s), [i \in 1..Len(s) |-> IF s[i] = BigRun THEN BigLen ELSE 1])

\* len(json.dumps(node.to_dict()))
NodeJsonLen(n) ==
    54 + Len(n.id) + StrLen(n.char) + (IF n.visible THEN 0 ELSE 1) + Len(IntStr(n.timestamp))

\* OptimizedSequenceCRDT.get_state_size : len(json.dumps(self.to_dict()))
GetStateSize(c) ==
    LET k == Len(c.sequence)
        t == Cardinality(c.tombstones)
    IN  63 + Len(c.site_id) + Len(IntStr(c.version))
        + SumOver(1..k, [i \in 1..k |-> NodeJsonLen(c.sequence[i])])
        + (IF k > 0 THEN 2 * (k - 1) ELSE 0)
        + SumOver(c.tombstones, [id \in c.tombstones |-> 2 + Len(id)])
        + (IF t > 0 THEN 2 * (t - 1) ELSE 0)

\* OptimizedConnectionManager.__init__, no socket opened yet; every document of the
\* database has an empty crdt_state.  Beside the manager's fields: the database,
\* the sockets with the document id and token of their request, what their
\* clients received and how many messages they sent,
\* the call stacks of the endpoint tasks, and two records of what happened: the
\* operations _handle_operation passed to apply_remote, the commits of
\* _save_document_state for the documents in Docs and the documents that
\* _initialize_document_crdt removed from the cache, each in order
ManagerInit ==
    [active_connections |-> <<>>,
     set_id |-> 0,
     quiet |-> [d \in Docs |-> 0],
     connection_info |-> <<>>,
     document_crdts |-> <<>>,
     save_tasks |-> <<>>,
     tasks |-> <<>>,
     db |-> [d \in Docs \cup FillerDocs |-> <<>>],
     sock |-> [c \in Conns |-> "new"],
     inbox |-> [c \in Conns |-> <<>>],
     stack |-> [c \in Conns |-> <<>>],
     request |-> [c \in Conns |-> <<>>],
     sent |-> [c \in Conns |-> 0],
     handled |-> <<>>,
     writes |-> <<>>,
     evictions |-> <<>>,
     store |-> "up",
     failures |-> <<>>,
     unhandled |-> <<>>,
     stopped |-> FALSE]

\* a dict without one key
DictDel(f, k) == [x \in DOMAIN f \ {k} |-> f[x]]
\* a dict with one key set
DictSet(f, k, v) == [x \in DOMAIN f \cup {k} |-> IF x = k THEN v ELSE f[x]]

\* the keys of document_crdts, in insertion order
CachedIds(M) == [i \in 1..Len(M.document_crdts) |-> M.document_crdts[i].id]
IsCached(M, d) == \E i \in 1..Len(M.document_crdts) : M.document_crdts[i].id = d
CacheIndex(M, d) == CHOOSE i \in 1..Len(M.document_crdts) : M.document_crdts[i].id = d
\* self.document_crdts[d]
CachedCrdt(M, d) == M.document_crdts[CacheIndex(M, d)].crdt
\* del self.document_crdts[d]
CacheDel(M, d) ==
    [M EXCEPT !.document_crdts = SelectSeq(@, LAMBDA e : e.id # d)]
\* self.document_crdts[d] = obj, or a method call that changes the cached object
CachePut(M, d, obj) ==
    IF IsCached(M, d)
    THEN [M EXCEPT !.document_crdts[CacheIndex(M, d)].crdt = obj]
    ELSE [M EXCEPT !.document_crdts = Append(@, [id |-> d, crdt |-> obj])]

\* len(self.active_connections[d]): the followed sockets and the silent ones
AttachedCount(M, d) ==
    (IF d \in DOMAIN M.active_connections
     THEN Cardinality(M.active_connections[d].members) ELSE 0)
    + (IF d \in DOMAIN M.quiet THEN M.quiet[d] ELSE 0)

\* sum(len(conns) for conns in self.active_connections.values())
TotalConnections(M) ==
    SumOver(Docs, [d \in Docs |-> AttachedCount(M, d)])

\* self.active_connections[d] of a defaultdict(set): a missing key gets a new set
TouchActive(M, d) ==
    IF d \in DOMAIN M.active_connections THEN M
    ELSE [M EXCEPT !.active_connections = DictSet(@, d, [members |-> {}, id |-> M.set_id + 1]),
                   !.set_id = @ + 1]

\* _save_document_state; while the store is down the query or the commit raises,
\* the except clause logs the error and rolls back
SaveDocumentState(M, d) ==
    IF ~IsCached(M, d) THEN M
    ELSE IF GetStateSize(CachedCrdt(M, d)) > MaxPersistedBytes THEN M
    ELSE IF M.store = "down"
    THEN [M EXCEPT !.failures = Append(@, [document_id |-> d, time |-> now])]
    ELSE IF d \notin DOMAIN M.db THEN M
    ELSE [M EXCEPT !.db[d] = <<ToDict(CachedCrdt(M, d))>>,
                   !.writes = IF d \in Docs
                              THEN Append(@, [document_id |-> d, time |-> now,
                                              state |-> ToDict(CachedCrdt(M, d))])
                              ELSE @]

\* _initialize_document_crdt: the cache-limit part
EvictOldest(M) ==
    IF Len(M.document_crdts) >= max_cached_crdts
    THEN LET oldest_id == M.document_crdts[1].id
         IN  [CacheDel(SaveDocumentState(M, oldest_id), oldest_id) EXCEPT !.evictions =
                 Append(@, [document_id |-> oldest_id,
                            attached |-> AttachedCount(M, oldest_id)])]
    ELSE M

\* _initialize_document_crdt succeeds: the document row is there when it is needed
InitializeOk(M, d) ==
    IsCached(EvictOldest(M), d) \/ d \in DOMAIN M.db

\* _initialize_document_crdt at time t, when it succeeds
InitializeDocumentCrdt(M, d, site_id, t) ==
    LET M1 == EvictOldest(M)
    IN  IF IsCached(M1, d) THEN M1
        ELSE IF M1.db[d] # <<>>
             THEN CachePut(M1, d, FromDict(M1.db[d][1], t))
             ELSE CachePut(M1, d, OptNew(site_id, t))

----------------------------------------------------------------------------
(* optimized_ws_manager.py : messages, save tasks, the parts without an await *)

\* an apply_remote that never refuses
ApplyRemoteNeverRefuses(c, operation) == TRUE

\* OptimizedSequenceCRDT.apply_remote : the value returned
OptApplyRemoteResult(c, operation) ==
    IF "type" \notin DOMAIN operation THEN FALSE
    ELSE IF operation.type = "insert"
         THEN /\ "node" \in DOMAIN operation
              /\ {"id", "char"} \subseteq DOMAIN operation.node
              /\ DOMAIN operation.node \subseteq {"id", "char", "visible", "timestamp", "position"}
    ELSE IF operation.type = "delete" THEN DeleteNodeId(operation) # <<>>
    ELSE FALSE

\* the messages the server sends
OperationMsg(operation) == [type |-> "operation", operation |-> operation]
ErrorMsg(message) == [type |-> "error", message |-> message]
UserJoinedMsg(site_id) == [type |-> "user_joined", site_id |-> site_id]
UserLeftMsg(site_id) == [type |-> "user_left", site_id |-> site_id]
RefreshMsg == [type |-> "refresh_required"]
\* what the client sees of websocket.close(code)
CloseMsg(code) == [type |-> "close", code |-> code]

\* _send_initial_state: the message; gzip and base64 lose nothing, the compressed
\* message carries the same state and the first 1000 characters of the text
InitialStateMsg(M, d) ==
    LET obj == CachedCrdt(M, d)
        compressed == GetStateSize(obj) > CompressAbove
    IN  [type |-> "initial_state", document_id |-> d, compressed |-> compressed,
         crdt_state |-> ToDict(obj),
         text |-> IF compressed THEN SubSeq(OptGetText(obj), 1, Min(1000, Len(OptGetText(obj))))
                  ELSE OptGetText(obj)]

\* websocket.send_text succeeds on a socket that is open at both ends
CanSend(M, conn) == M.sock[conn] = "open"

\* a socket that hands its client the newest message first
DeliverNewestFirst(M, conn, message) == [M EXCEPT !.inbox[conn] = <<message>> \o @]

\* the client of conn receives a message
Deliver(M, conn, message) == [M EXCEPT !.inbox[conn] = Append(@, message)]

\* websocket.close(code): the client, if still there, sees the code
Close(M, conn, code) ==
    [(IF M.sock[conn] \in {"new", "open"} THEN Deliver(M, conn, CloseMsg(code)) ELSE M)
        EXCEPT !.sock[conn] = "server_closed"]

\* task.cancel(): a task that has not run yet never runs, a sleeping one gets
\* CancelledError when it runs next, a finished one is not affected
CancelTask(M, id) ==
    IF id \notin DOMAIN M.tasks THEN M
    ELSE IF M.tasks[id].state = "created" THEN [M EXCEPT !.tasks = DictDel(@, id)]
    ELSE [M EXCEPT !.tasks[id].state = "cancelled"]

\* _schedule_save
ScheduleSave(M, d) ==
    LET M1 == IF d \in DOMAIN M.save_tasks THEN CancelTask(M, M.save_tasks[d]) ELSE M
        id == Least({i \in 1..(Cardinality(DOMAIN M1.tasks) + 1) : i \notin DOMAIN M1.tasks})
    IN  [M1 EXCEPT !.tasks = DictSet(@, id, [document_id |-> d, state |-> "created",
                                               deadline |-> 0]),
                   !.save_tasks = DictSet(@, d, id)]

\* a disconnect that discards the socket from its set and forgets to delete
\* its connection_info
DisconnectKeepsInfo(M, ws) ==
    [M EXCEPT !.active_connections =
        [d \in DOMAIN @ |-> IF d = M.connection_info[ws].document_id
                            THEN [@[d] EXCEPT !.members = @ \ {ws}] ELSE @[d]]]

\* disconnect, lines 102-126: from the lookup of the connection to "del connection_info"
DisconnectBody(M, ws) ==
    LET d == M.connection_info[ws].document_id
        M1 == TouchActive(M, d)
        M2 == [M1 EXCEPT !.active_connections[d].members = @ \ {ws}]
        A == [M2 EXCEPT !.active_connections = DictDel(@, d)]
        B == SaveDocumentState(A, d)
        C == IF d \in DOMAIN B.save_tasks
             THEN [CancelTask(B, B.save_tasks[d]) EXCEPT !.save_tasks = DictDel(@, d)]
             ELSE B
        D == IF IsCached(C, d) /\ GetStateSize(CachedCrdt(C, d)) > max_crdt_size
             THEN CacheDel(C, d) ELSE C
        M3 == IF AttachedCount(M2, d) = 0 THEN D ELSE M2
    IN  [M3 EXCEPT !.connection_info = DictDel(@, ws)]

----------------------------------------------------------------------------
(* optimized_ws_manager.py, main.py : the coroutines, run from one await to the next *)

\* the frames of a task's call stack; pc is the place the coroutine resumes at
EndpointFrame(pc) == [fn |-> "endpoint", pc |-> pc]
ConnectFrame(d) == [fn |-> "connect", document_id |-> d, pc |-> "entry"]
HandleFrame(operation) ==
    [fn |-> "handle_operation", operation |-> operation, document_id |-> 0, pc |-> "entry"]
BroadcastFrame(d, message, exclude) ==
    [fn |-> "broadcast", document_id |-> d, message |-> message, exclude |-> exclude,
     set_obj |-> 0, used |-> 0, pos |-> 0, broken |-> <<>>, pc |-> "entry"]
DisconnectFrame(ws) == [fn |-> "disconnect", ws |-> ws, pc |-> "entry"]

Top(M, c) == M.stack[c][Len(M.stack[c])]
SetTop(M, c, f) == [M EXCEPT !.stack[c] = [@ EXCEPT ![Len(@)] = f]]
Push(M, c, f) == [M EXCEPT !.stack[c] = Append(@, f)]
Pop(M, c) == [M EXCEPT !.stack[c] = SubSeq(@, 1, Len(@) - 1)]

\* the set object a broadcast iterates: its size now and its followed members; a
\* set that was deleted from active_connections is empty
IterSize(M, f) ==
    IF f.document_id \in DOMAIN M.active_connections
       /\ M.active_connections[f.document_id].id = f.set_obj
    THEN AttachedCount(M, f.document_id) ELSE 0
IterMembers(M, f) ==
    IF f.document_id \in DOMAIN M.active_connections
       /\ M.active_connections[f.document_id].id = f.set_obj
    THEN M.active_connections[f.document_id].members ELSE {}

RECURSIVE Exec(_, _)

\* the function on top of the stack returns to its caller
Return(M, c) == Exec(Pop(M, c), c)

\* an exception leaves _broadcast_message: _handle_operation and disconnect log it
\* and return, connect closes the socket with 4000
Raise(M, c) ==
    LET M1 == Pop(M, c)
        caller == Top(M1, c)
    IN  IF caller.fn = "connect"
        THEN SetTop(Close(M1, c, 4000), c, [caller EXCEPT !.pc = "closed"])
        ELSE Return(M1, c)

\* websocket_endpoint, lines 180-235
ExecEndpoint(M, c, f) ==
    IF f.pc = "receive"
    THEN IF M.sock[c] = "server_closed"
         THEN Exec(Push(SetTop(M, c, EndpointFrame("finally_done")), c, DisconnectFrame(c)), c)
         ELSE SetTop(M, c, EndpointFrame("loop"))
    ELSE IF f.pc = "finally_done" THEN [M EXCEPT !.stack[c] = <<>>]
    ELSE M

\* OptimizedConnectionManager.connect
ExecConnect(M, c, f) ==
    LET d == f.document_id
        closed == [f EXCEPT !.pc = "closed"]
    IN  IF f.pc = "entry"
        THEN IF TotalConnections(M) >= max_total_connections
             THEN SetTop(Close(M, c, 4008), c, closed)
             ELSE IF AttachedCount(M, d) >= max_connections_per_document
             THEN SetTop(Close(TouchActive(M, d), c, 4009), c, closed)
             ELSE SetTop([TouchActive(M, d) EXCEPT !.sock[c] = "open"], c,
                         [f EXCEPT !.pc = "accept"])
        ELSE IF f.pc = "accept"
        THEN LET M1 == TouchActive(M, d)
                 M2 == [M1 EXCEPT !.active_connections[d].members = @ \cup {c},
                                  !.connection_info = DictSet(@, c,
                                      [document_id |-> d, site_id |-> SiteOf(c)])]
                 M3 == InitializeDocumentCrdt(M2, d, SiteOf(c), now)
             IN  IF ~InitializeOk(M2, d)
                 THEN SetTop(Close(EvictOldest(M2), c, 4000), c, closed)
                 ELSE IF ~CanSend(M3, c) THEN SetTop(Close(M3, c, 4000), c, closed)
                 ELSE SetTop(Deliver(M3, c, InitialStateMsg(M3, d)), c,
                             [f EXCEPT !.pc = "sent_initial"])
        ELSE IF f.pc = "sent_initial"
        THEN Exec(Push(SetTop(M, c, [f EXCEPT !.pc = "joined"]), c,
                       BroadcastFrame(d, UserJoinedMsg(SiteOf(c)), c)), c)
        ELSE Return(M, c)

\* apply_remote changes the dict it is given: the node of an insert loses
\* "position" and gets the defaults of "visible" and "timestamp"
OperationAfterApply(operation, t) ==
    IF /\ "type" \in DOMAIN operation /\ operation.type = "insert"
       /\ "node" \in DOMAIN operation
       /\ {"id", "char"} \subseteq DOMAIN operation.node
    THEN LET node_data == operation.node
             keys == (DOMAIN node_data \ {"position"}) \cup {"visible", "timestamp"}
         IN  [operation EXCEPT !.node =
                 [k \in keys |-> IF k \in DOMAIN node_data THEN node_data[k]
                                 ELSE IF k = "visible" THEN TRUE ELSE t]]
    ELSE operation

\* the record of one call of apply_remote by _handle_operation
HandledEntry(M, c, d, operation, after) ==
    LET before == CachedCrdt(M, d)
    IN  [operation |-> operation, origin |-> c, document_id |-> d,
         accepted |-> OptApplyRemoteResult(before, operation),
         time |-> now,
         peers |-> {x \in M.active_connections[d].members \ {c} : CanSend(M, x)},
         open |-> CanSend(M, c),
         closed |-> {x \in M.active_connections[d].members \ {c} : ~CanSend(M, x)},
         known |-> /\ "node" \in DOMAIN operation /\ "id" \in DOMAIN operation.node
                   /\ \E i \in 1..Len(before.sequence) :
                          before.sequence[i].id = operation.node.id,
         changed |-> before.sequence # after.sequence \/ before.tombstones # after.tombstones,
         scheduled |-> FALSE]

\* the record of the operation notes that _schedule_save was called for it
MarkScheduled(M, op_id) ==
    [M EXCEPT !.handled = [i \in DOMAIN @ |->
                              IF @[i].operation.op_id = op_id THEN [@[i] EXCEPT !.scheduled = TRUE]
                              ELSE @[i]]]

\* OptimizedConnectionManager._handle_operation, with _compact_document
ExecHandle(M, c, f) ==
    LET done == [f EXCEPT !.pc = "return"]
    IN  IF f.pc = "entry"
        THEN IF c \notin DOMAIN M.connection_info THEN Return(M, c)
             ELSE LET d == M.connection_info[c].document_id
                      sendError(M0, text) ==
                          SetTop(IF CanSend(M0, c) THEN Deliver(M0, c, ErrorMsg(text)) ELSE M0,
                                 c, done)
                  IN  IF ~IsCached(M, d) THEN sendError(M, "Document not initialized")
                      ELSE LET obj == CachedCrdt(M, d)
                               after == OptApplyRemote(obj, f.operation, now)
                               M1 == [CachePut(M, d, after) EXCEPT !.handled =
                                         Append(@, HandledEntry(M, c, d, f.operation, after))]
                           IN  IF ~OptApplyRemoteResult(obj, f.operation)
                               THEN sendError(M1, "Failed to apply operation")
                               ELSE Exec(Push(SetTop(M1, c,
                                                 [f EXCEPT !.pc = "broadcast_done",
                                                           !.document_id = d]),
                                              c, BroadcastFrame(d,
                                                 OperationMsg(OperationAfterApply(f.operation, now)),
                                                 c)), c)
        ELSE IF f.pc = "broadcast_done"
        THEN LET d == f.document_id
                 M1 == MarkScheduled(ScheduleSave(M, d), f.operation.op_id)
             IN  IF IsCached(M1, d) /\ GetStateSize(CachedCrdt(M1, d)) > max_crdt_size
                 THEN Exec(Push(SetTop(SaveDocumentState(
                                           CachePut(M1, d, Compact(CachedCrdt(M1, d), now)), d),
                                       c, done),
                                c, BroadcastFrame(d, RefreshMsg, 0)), c)
                 ELSE Return(M1, c)
        ELSE Return(M, c)

\* OptimizedConnectionManager._broadcast_message
ExecBroadcast(M, c, f) ==
    IF f.pc = "entry"
    THEN IF f.document_id \notin DOMAIN M.active_connections THEN Return(M, c)
         ELSE Exec(SetTop(M, c, [f EXCEPT !.set_obj = M.active_connections[f.document_id].id,
                                          !.used = AttachedCount(M, f.document_id),
                                          !.pc = "next"]), c)
    ELSE IF f.pc = "next"
    THEN LET rest == {x \in IterMembers(M, f) : x > f.pos}
             conn == Least(rest)
             moved == [f EXCEPT !.pos = conn]
         IN  IF IterSize(M, f) # f.used THEN Raise(M, c)
             ELSE IF rest = {} THEN Exec(SetTop(M, c, [f EXCEPT !.pc = "cleanup"]), c)
             ELSE IF conn = f.exclude THEN Exec(SetTop(M, c, moved), c)
             ELSE IF CanSend(M, conn) THEN SetTop(Deliver(M, conn, f.message), c, moved)
             ELSE SetTop(M, c, [moved EXCEPT !.broken = Append(@, conn)])
    ELSE IF f.broken = <<>> THEN Return(M, c)
    ELSE Exec(Push(SetTop(M, c, [f EXCEPT !.broken = Tail(@)]), c,
                   DisconnectFrame(Head(f.broken))), c)

\* OptimizedConnectionManager.disconnect
ExecDisconnect(M, c, f) ==
    IF f.pc = "entry"
    THEN IF f.ws \notin DOMAIN M.connection_info THEN Return(M, c)
         ELSE Exec(Push(SetTop(DisconnectBody(M, f.ws), c, [f EXCEPT !.pc = "return"]), c,
                        BroadcastFrame(M.connection_info[f.ws].document_id,
                                       UserLeftMsg(M.connection_info[f.ws].site_id), 0)), c)
    ELSE Return(M, c)

\* the task of socket c runs until its next await that suspends it
Exec(M, c) ==
    IF M.stack[c] = <<>> THEN M
    ELSE LET f == Top(M, c)
         IN  IF f.fn = "endpoint" THEN ExecEndpoint(M, c, f)
             ELSE IF f.fn = "connect" THEN ExecConnect(M, c, f)
             ELSE IF f.fn = "handle_operation" THEN ExecHandle(M, c, f)
             ELSE IF f.fn = "broadcast" THEN ExecBroadcast(M, c, f)
             ELSE ExecDisconnect(M, c, f)

----------------------------------------------------------------------------
(* ws_manager.py : ConnectionManager, a manager over SequenceCRDT *)

\* ConnectionManager.save_delay, in seconds
LegacySaveDelay == 3

\* SequenceCRDT.__init__
SeqNew(site_id) == [site_id |-> site_id, clock |-> 0, nodes |-> BoundaryNodes]

\* SequenceCRDT.to_dict, with CRDTNode.to_dict and Position.to_dict
SeqToDict(obj) ==
    [site_id |-> obj.site_id, clock |-> obj.clock,
     nodes |-> [i \in 1..Len(obj.nodes) |->
                   [position |-> [identifiers |-> obj.nodes[i].position.identifiers,
                                  site_id |-> obj.nodes[i].position.site_id],
                    value |-> obj.nodes[i].value,
                    visible |-> obj.nodes[i].visible]]]

\* SequenceCRDT.from_dict, with CRDTNode.from_dict and Position.from_dict
SeqFromDict(data) ==
    [site_id |-> data.site_id, clock |-> data.clock,
     nodes |-> [i \in 1..Len(data.nodes) |->
                   CRDTNode(Position(data.nodes[i].position.identifiers,
                                     data.nodes[i].position.site_id),
                            data.nodes[i].value,
                            IF "visible" \in DOMAIN data.nodes[i]
                            THEN data.nodes[i].visible ELSE TRUE)]]

\* len(json.dumps(node.to_dict())) of a CRDTNode
SeqNodeJsonLen(n) ==
    LET ids == n.position.identifiers
    IN  74 + SumOver(1..Len(ids), [i \in 1..Len(ids) |-> Len(Digits(ids[i]))])
           + 2 * (Len(ids) - 1)
           + Len(n.position.site_id) + StrLen(n.value) + (IF n.visible THEN 4 ELSE 5)

\* len(json.dumps(crdt.to_dict())) of a SequenceCRDT
SeqStateSize(obj) ==
    LET k == Len(obj.nodes)
    IN  39 + Len(obj.site_id) + Len(Digits(obj.clock))
           + SumOver(1..k, [i \in 1..k |-> SeqNodeJsonLen(obj.nodes[i])])
           + (IF k > 0 THEN 2 * (k - 1) ELSE 0)

\* ConnectionManager.__init__, with the database, what the clients received and
\* the record of the operations _handle_crdt_operation was given
LegacyInit ==
    [active_connections |-> <<>>,
     connection_info |-> <<>>,
     document_crdts |-> <<>>,
     last_save_times |-> <<>>,
     save_tasks |-> <<>>,
     tasks |-> <<>>,
     db |-> [d \in Docs |-> <<>>],
     inbox |-> [c \in Conns |-> <<>>],
     handled |-> <<>>,
     received |-> <<>>,
     gone |-> {},
     cleanup_lock |-> 0,
     acquiring |-> {}]

\* ConnectionManager._initialize_document_crdt
LegacyInitializeDocumentCrdt(L, d, site_id) ==
    IF d \in DOMAIN L.document_crdts THEN L
    ELSE [L EXCEPT !.document_crdts =
             DictSet(@, d, IF L.db[d] # <<>> THEN SeqFromDict(L.db[d][1]) ELSE SeqNew(site_id))]

\* ConnectionManager._save_document_state: a state over the limit is removed from
\* the cache; for any other state the import of calculate_word_count, which
\* routers/documents.py does not define, raises before db.commit() and the
\* except clause rolls the assignment back
LegacySaveDocumentState(L, d) ==
    IF d \notin DOMAIN L.document_crdts THEN L
    ELSE IF SeqStateSize(L.document_crdts[d]) > MaxPersistedBytes
         THEN [L EXCEPT !.document_crdts = DictDel(@, d)]
         ELSE L

\* ConnectionManager._broadcast_message over a copy of the set; every socket of
\* this manager is open
RECURSIVE LegacyBroadcast(_, _, _)
LegacyBroadcast(L, targets, message) ==
    IF targets = {} THEN L
    ELSE LET conn == Least(targets)
         IN  LegacyBroadcast([L EXCEPT !.inbox[conn] = Append(@, message)],
                             targets \ {conn}, message)

\* the members of active_connections[d] but one
LegacyPeers(L, d, exclude) ==
    IF d \in DOMAIN L.active_connections THEN L.active_connections[d] \ {exclude} ELSE {}

\* ConnectionManager.connect
LegacyConnectBody(L, c, d) ==
    LET L1 == [L EXCEPT !.active_connections =
                   DictSet(@, d, (IF d \in DOMAIN @ THEN @[d] ELSE {}) \cup {c}),
                        !.connection_info = DictSet(@, c, [document_id |-> d,
                                                           site_id |-> SiteOf(c)])]
        L2 == LegacyInitializeDocumentCrdt(L1, d, SiteOf(c))
        L3 == [L2 EXCEPT !.inbox[c] = Append(@, [type |-> "initial_state", document_id |-> d,
                                                 crdt_state |-> SeqToDict(L2.document_crdts[d]),
                                                 text |-> GetText(L2.document_crdts[d].nodes)])]
    IN  LegacyBroadcast(L3, LegacyPeers(L3, d, 0),
                        [type |-> "presence", event |-> "user_joined", site_id |-> SiteOf(c)])

\* ConnectionManager._schedule_save at time t
LegacyScheduleSave(L, d, t) ==
    ScheduleSave([L EXCEPT !.last_save_times = DictSet(@, d, t)], d)

\* ConnectionManager._handle_crdt_operation at time t, for a well-formed operation
LegacyHandleCrdtOperation(L, c, operation, t) ==
    LET d == L.connection_info[c].document_id
        log(outcome) == [origin |-> c, document_id |-> d, operation |-> operation,
                         outcome |-> outcome]
        error(text) == [type |-> "error", message |-> text]
    IN  IF d \notin DOMAIN L.document_crdts
        THEN [L EXCEPT !.inbox[c] = Append(@, error("Document not initialized")),
                       !.handled = Append(@, log("not initialized"))]
        ELSE LET obj == L.document_crdts[d]
                 L1 == [L EXCEPT !.document_crdts[d].nodes = ApplyRemote(@, operation)]
             IN  IF ApplyRemoteResult(obj.nodes, operation) = "True"
                 THEN LegacyScheduleSave(
                          LegacyBroadcast([L1 EXCEPT !.handled = Append(@, log("applied"))],
                                          LegacyPeers(L1, d, c),
                                          [type |-> "operation", operation |-> operation]),
                          d, t)
                 ELSE [L1 EXCEPT !.inbox[c] = Append(@, error("Failed to apply operation")),
                                 !.handled = Append(@, log("refused"))]

\* a JSON value that is not an object is written [not_object |-> value]
IsDict(v) == "not_object" \notin DOMAIN v

\* cursor_data["site_id"] = ..., ["user_id"] = None, ["username"] = "Guest"
Stamped(payload, site_id) ==
    [k \in DOMAIN payload \cup {"site_id", "user_id", "username"} |->
        IF k = "site_id" THEN site_id
        ELSE IF k = "user_id" THEN "None"
        ELSE IF k = "username" THEN "Guest"
        ELSE payload[k]]

\* the message _handle_cursor_update and _handle_presence_update broadcast
PresenceMsg(kind, payload) ==
    IF kind = "cursor" THEN [type |-> "cursor", cursor |-> payload]
    ELSE [type |-> "presence", presence |-> payload]

\* the handlers that forward to everybody, the sender included
LegacyHandlePresenceEcho(L, c, kind, data) ==
    LET d == L.connection_info[c].document_id
        payload == IF kind \in DOMAIN data THEN data[kind] ELSE <<>>
    IN  LegacyBroadcast([L EXCEPT !.received = Append(@, [origin |-> c, data |-> data])],
                        LegacyPeers(L, d, 0),
                        PresenceMsg(kind, Stamped(payload, L.connection_info[c].site_id)))

\* ConnectionManager._handle_cursor_update (kind "cursor") and
\* _handle_presence_update (kind "presence"), called by handle_message: the
\* assignment to a payload that is not a dict raises TypeError, which
\* handle_message answers with an error message
LegacyHandlePresence(L, c, kind, data) ==
    LET d == L.connection_info[c].document_id
        payload == IF kind \in DOMAIN data THEN data[kind] ELSE <<>>
        L1 == [L EXCEPT !.received = Append(@, [origin |-> c, data |-> data])]
    IN  IF ~IsDict(payload)
        THEN [L1 EXCEPT !.inbox[c] = Append(@, [type |-> "error",
                                                message |-> "Error processing message"])]
        ELSE LegacyBroadcast(L1, LegacyPeers(L1, d, c),
                             PresenceMsg(kind, Stamped(payload, L.connection_info[c].site_id)))

\* ConnectionManager.disconnect
LegacyDisconnectBody(L, c) ==
    LET d == L.connection_info[c].document_id
        L1 == [L EXCEPT !.active_connections[d] = @ \ {c}]
        A == LegacySaveDocumentState([L1 EXCEPT !.active_connections = DictDel(@, d)], d)
        B == IF d \in DOMAIN A.save_tasks
             THEN [CancelTask(A, A.save_tasks[d]) EXCEPT !.save_tasks = DictDel(@, d)]
             ELSE A
        L2 == IF L1.active_connections[d] = {} THEN B ELSE L1
        L3 == [L2 EXCEPT !.connection_info = DictDel(@, c)]
    IN  LegacyBroadcast(L3, LegacyPeers(L3, d, 0),
                        [type |-> "presence", event |-> "user_left", site_id |-> SiteOf(c)])

\* the task that runs cleanup_stale_connections; the endpoint task of socket c
\* has the number c, and cleanup_lock holds the number of its holder or 0
CleanupTask == Cardinality(Conns) + 1

\* ConnectionManager.disconnect(c) called by a task while some sockets (L.gone)
\* no longer take a send.  The task is suspended in "async with
\* self.cleanup_lock" while the lock is held.  Otherwise it does what
\* disconnect does; the sockets of L.gone receive nothing, and when one of them
\* is among the peers, _broadcast_message calls self.disconnect for it with the
\* lock still held by this task: asyncio.Lock is not reentrant, so the task is
\* suspended in the second acquire and the lock is never released
LegacyDisconnectCall(L, task, c) ==
    IF L.cleanup_lock # 0 THEN [L EXCEPT !.acquiring = @ \cup {task}]
    ELSE IF c \notin DOMAIN L.connection_info THEN L
    ELSE LET d == L.connection_info[c].document_id
             broken == LegacyPeers(L, d, c) \cap L.gone
             L1 == LegacyDisconnectBody(L, c)
             L2 == [L1 EXCEPT !.inbox = [q \in Conns |->
                                           IF q \in L.gone THEN L.inbox[q] ELSE @[q]]]
         IN  IF broken = {} THEN L2
             ELSE [L2 EXCEPT !.cleanup_lock = task, !.acquiring = @ \cup {task}]

\* one round of ConnectionManager.cleanup_stale_connections: under the lock,
\* every socket of connection_info is pinged in the order of insertion, and
\* self.disconnect is called for the first that fails
LegacyCleanupRound(L) ==
    IF L.cleanup_lock # 0 THEN [L EXCEPT !.acquiring = @ \cup {CleanupTask}]
    ELSE LET stale == DOMAIN L.connection_info \cap L.gone
             pinged == IF stale = {} THEN DOMAIN L.connection_info
                       ELSE {q \in DOMAIN L.connection_info : q < Least(stale)}
             L1 == LegacyBroadcast(L, pinged, [type |-> "ping"])
         IN  IF stale = {} THEN L1
             ELSE [L1 EXCEPT !.cleanup_lock = CleanupTask,
                             !.acquiring = @ \cup {CleanupTask}]

----------------------------------------------------------------------------
(* Actions of one SequenceCRDT replica *)

convIdle == UNCHANGED <<convVars, optVars, optConvVars, mgrVars, posVars>>

\* SequenceCRDT.local_insert(index, value)
LocalInsert(index, value) ==
    /\ IF ~InsertIndexOk(nodes, index)
       THEN /\ UNCHANGED <<nodes, clock>>
            /\ last' = Call("local_insert", TRUE, NoOperation)
       ELSE /\ clock < MaxClock
            /\ \E new_position \in GeneratePositionBetween(InsertPos1(nodes, index),
                                       InsertPos2(nodes, index), SiteA, clock + 1) :
                  LET new_node == CRDTNode(new_position, value, TRUE)
                  IN  /\ nodes' = ListInsert(nodes, BisectLeft(nodes, new_node), new_node)
                      /\ clock' = clock + 1
                      /\ last' = Call("local_insert", FALSE,
                                      CRDTOperation("insert", new_node, SiteA))
    /\ convIdle

\* SequenceCRDT.local_delete(index)
LocalDelete(index) ==
    /\ LET k == PyListIndex(VisibleLength(nodes), index)
       IN  IF ~DeleteIndexOk(nodes, index) \/ k = 0
           THEN /\ UNCHANGED nodes
                /\ last' = Call("local_delete", TRUE, NoOperation)
           ELSE LET i == ListIndexOfVisible(nodes, k)
                IN  /\ nodes' = [nodes EXCEPT ![i].visible = FALSE]
                    /\ last' = Call("local_delete", FALSE,
                                    CRDTOperation("delete", nodes'[i], SiteA))
    /\ UNCHANGED clock
    /\ convIdle

\* SequenceCRDT.apply_remote(operation)
Receive(op) ==
    /\ nodes' = ApplyRemote(nodes, op)
    /\ last' = Call("apply_remote", ApplyRemoteResult(nodes, op) = "ValueError", NoOperation)
    /\ UNCHANGED clock
    /\ convIdle

\* SequenceCRDT.merge_with(other_crdt)
Merge(other) ==
    /\ nodes' = MergeWith(nodes, other)
    /\ last' = Call("merge_with", FALSE, NoOperation)
    /\ UNCHANGED clock
    /\ convIdle

\* SequenceCRDT.__init__ and OptimizedSequenceCRDT.__init__, at time 0
Constructed ==
    /\ nodes = BoundaryNodes
    /\ clock = 0
    /\ last = Call("init", FALSE, NoOperation)
    /\ convNodes = [r \in {1, 2} |-> BoundaryNodes]
    /\ convDone = [r \in {1, 2} |-> {}]
    /\ crdt = OptNew(OptSite, 0)
    /\ copy = <<>>
    /\ now = 0
    /\ deferred = {}
    /\ optNodes = [r \in {1, 2} |-> OptNew(<<48 + r>>, 0)]
    /\ optDone = [r \in {1, 2} |-> {}]
    /\ srv = ManagerInit
    /\ legacy = LegacyInit

\* no Position has been compared
Init ==
    /\ Constructed
    /\ compared = NotCompared

NextSeq ==
    \/ \E index \in -1..(VisibleLength(nodes) + 1), value \in LocalValues :
          LocalInsert(index, value)
    \/ \E index \in -1..(VisibleLength(nodes) + 1) : LocalDelete(index)
    \/ \E op \in WireOps(nodes) : Receive(op)
    \/ \E other \in OtherReplicas : Merge(other)

SpecSeq == Init /\ [][NextSeq]_vars

----------------------------------------------------------------------------
(* Positions that are compared with each other *)

\* the identifier lists of at most MaxDepth identifiers from 0 to MaxIdentifier
IdentifierLists ==
    UNION {[1..n -> 0..MaxIdentifier] : n \in 0..MaxDepth}

\* the site ids "A", "A_1" and "B_1": one is a prefix of another
ComparedSites == {SiteA, SiteTag(SiteA, 1), SiteTag(SiteB, 1)}

ComparedPositions ==
    {Position(ids, site_id) : ids \in IdentifierLists, site_id \in ComparedSites}

\* three Positions are constructed
InitPos ==
    /\ Constructed
    /\ compared \in {[NotCompared EXCEPT !.args = <<p, q, r>>] :
                        p \in ComparedPositions, q \in ComparedPositions,
                        r \in ComparedPositions}

\* every one of the three is compared with every one, with < and with ==
Compare ==
    /\ compared.args # <<>>
    /\ compared.lt = <<>>
    /\ compared' = [compared EXCEPT
                        !.lt = [i \in 1..3 |-> [j \in 1..3 |->
                                    PosLT(compared.args[i], compared.args[j])]],
                        !.eq = [i \in 1..3 |-> [j \in 1..3 |->
                                    PosEQ(compared.args[i], compared.args[j])]]]
    /\ UNCHANGED <<seqVars, convVars, optVars, optConvVars, mgrVars>>

NextPos == Compare

SpecPos == InitPos /\ [][NextPos]_vars

----------------------------------------------------------------------------
(* Two fresh SequenceCRDT replicas that receive the same operations in any order *)

\* the operations of the run: two concurrent inserts and the deletes of both
ConvOps ==
    {CRDTOperation("insert", n, n.position.site_id) : n \in RemoteNodes}
    \cup {CRDTOperation("delete", [n EXCEPT !.visible = FALSE], n.position.site_id) :
             n \in RemoteNodes}

\* replica r applies, with apply_remote, an operation it has not processed yet
ConvDeliver(r, op) ==
    /\ op \notin convDone[r]
    /\ convNodes' = [convNodes EXCEPT ![r] = ApplyRemote(@, op)]
    /\ convDone' = [convDone EXCEPT ![r] = @ \cup {op}]
    /\ UNCHANGED <<seqVars, optVars, optConvVars, mgrVars, posVars>>

NextSeqConv == \E r \in {1, 2}, op \in ConvOps : ConvDeliver(r, op)

SpecSeqConv == Init /\ [][NextSeqConv]_vars

----------------------------------------------------------------------------
(* Actions of one OptimizedSequenceCRDT and of its restored copy *)

optIdle == UNCHANGED <<seqVars, convVars, optConvVars, mgrVars, posVars>>

\* the calls explored from one counter value: MaxOps from zero and MaxOps from
\* one short of the threshold
CanCount(c) ==
    \/ c.operations_since_compaction < MaxOps
    \/ /\ c.operations_since_compaction >= compaction_threshold - 1
       /\ c.operations_since_compaction < compaction_threshold - 1 + MaxOps

\* the deferred inserts after a call that took crdt to c2: an id that is a
\* tombstone without a node has had a delete that found no node, and the call
\* added its node
DeferredAfter(c2) ==
    LET old_ids == {crdt.sequence[i].id : i \in 1..Len(crdt.sequence)}
        new_ids == {c2.sequence[i].id : i \in 1..Len(c2.sequence)} \ old_ids
    IN  deferred \cup (new_ids \cap crdt.tombstones)

\* insert(position, char)
OptLocalInsert(position, char) ==
    /\ crdt.version < MaxVersion
    /\ CanCount(crdt)
    /\ crdt' = OptInsert(crdt, position, char, now)
    /\ copy' = [i \in DOMAIN copy |-> OptInsert(copy[i], position, char, now)]
    /\ deferred' = DeferredAfter(crdt')
    /\ UNCHANGED now
    /\ optIdle

\* delete(position)
OptLocalDelete(position) ==
    /\ CanCount(crdt)
    /\ crdt' = OptDelete(crdt, position, now)
    /\ copy' = [i \in DOMAIN copy |-> OptDelete(copy[i], position, now)]
    /\ deferred' = DeferredAfter(crdt')
    /\ UNCHANGED now
    /\ optIdle

\* apply_remote(op)
OptReceive(op) ==
    /\ CanCount(crdt)
    /\ crdt' = OptApplyRemote(crdt, op, now)
    /\ copy' = [i \in DOMAIN copy |-> OptApplyRemote(copy[i], op, now)]
    /\ deferred' = DeferredAfter(crdt')
    /\ UNCHANGED now
    /\ optIdle

\* apply_remote(op) leaves everything but the operation counter as it is
OnlyCounts(c, op) ==
    OptApplyRemote(c, op, now) = [c EXCEPT !.operations_since_compaction = @ + 1]

\* apply_remote(op) called again and again with a delete that only advances the
\* counter, until the counter is one short of compaction_threshold
OptRedeliver(op) ==
    LET m == compaction_threshold - 1 - crdt.operations_since_compaction
    IN  /\ m > 0
        /\ OnlyCounts(crdt, op)
        /\ \A i \in DOMAIN copy :
              /\ OnlyCounts(copy[i], op)
              /\ copy[i].operations_since_compaction + m < compaction_threshold
        /\ crdt' = [crdt EXCEPT !.operations_since_compaction = @ + m]
        /\ copy' = [i \in DOMAIN copy |-> [copy[i] EXCEPT !.operations_since_compaction = @ + m]]
        /\ UNCHANGED <<now, deferred>>
        /\ optIdle

\* time passes: as many seconds as make a node old enough for _compact to drop it
Tick ==
    /\ now + TombstoneMaxAge <= MaxTime
    /\ now' = now + TombstoneMaxAge
    /\ UNCHANGED <<crdt, copy, deferred>>
    /\ optIdle

\* a second object is made with from_dict(to_dict())
Snapshot ==
    /\ copy = <<>>
    /\ copy' = <<FromDict(ToDict(crdt), now)>>
    /\ UNCHANGED <<crdt, now, deferred>>
    /\ optIdle

\* the object is replaced by from_dict(to_dict()) of itself
Restore ==
    /\ copy = <<>>
    /\ crdt' = FromDict(ToDict(crdt), now)
    /\ UNCHANGED <<copy, now, deferred>>
    /\ optIdle

NextOpt ==
    \/ \E position \in 0..Len(OptGetText(crdt)), char \in LocalValues :
          OptLocalInsert(position, char)
    \/ \E position \in 0..Len(OptGetText(crdt)) : OptLocalDelete(position)
    \/ \E op \in OptWireOps(crdt) : OptReceive(op)
    \/ \E op \in OptWireOps(crdt) : OptRedeliver(op)
    \/ Tick
    \/ Restore

SpecOpt == Init /\ [][NextOpt]_vars

\* an insert that names the id the object's own first insert(0, char) gets
InsS == [type |-> "insert", position |-> 0,
         node |-> [id |-> OptSite \o <<58, 48, 58, 48>>, char |-> <<"r">>, visible |-> TRUE,
                   timestamp |-> 0]]

\* the same calls, and the delivery of an insert with an id of the object's own
NextOptOwn ==
    \/ NextOpt
    \/ OptReceive(InsS)

SpecOptOwn == Init /\ [][NextOptOwn]_vars

\* the same calls made on the object and on its copy, without Restore
NextOptCopy ==
    \/ \E position \in 0..Len(OptGetText(crdt)), char \in LocalValues :
          OptLocalInsert(position, char)
    \/ \E position \in 0..Len(OptGetText(crdt)) : OptLocalDelete(position)
    \/ \E op \in OptWireOps(crdt) : OptReceive(op)
    \/ \E op \in OptWireOps(crdt) : OptRedeliver(op)
    \/ Tick
    \/ Snapshot

SpecOptCopy == Init /\ [][NextOptCopy]_vars

----------------------------------------------------------------------------
(* Two fresh OptimizedSequenceCRDT replicas that receive the same operations in any order *)

OptConvOps == {InsA, InsA2, InsT, DelA, DelT}

\* replica r applies, with apply_remote, an operation it has not processed yet
OptConvDeliver(r, op) ==
    /\ op \notin optDone[r]
    /\ optNodes' = [optNodes EXCEPT ![r] = OptApplyRemote(@, op, now)]
    /\ optDone' = [optDone EXCEPT ![r] = @ \cup {op}]
    /\ UNCHANGED <<seqVars, convVars, optVars, mgrVars, posVars>>

NextOptConv == \E r \in {1, 2}, op \in OptConvOps : OptConvDeliver(r, op)

SpecOptConv == Init /\ [][NextOptConv]_vars

----------------------------------------------------------------------------
(* main.py : websocket_endpoint, from the request to manager.connect *)

\* A token is a sequence of pieces of text, "Bearer " being one piece; a user
\* name likewise, "guest_" being one piece.
\* the users table: username -> id
UserAlice == <<"alice">>
UserBob == <<"bob">>
UserCarol == <<"carol">>
UsersTable == {[username |-> UserAlice, id |-> 1], [username |-> UserBob, id |-> 2],
               [username |-> UserCarol, id |-> 3]}
\* the names that tokens signed with SECRET_KEY and not expired carry as "sub";
\* "dave" was deleted after the token was issued
SignedSubjects == {UserAlice, UserBob, UserCarol, <<"dave">>, <<"guest_", "7">>}
JwtOf(username) == <<"jwt">> \o username

\* the documents table: document 1 is public, document 2 is private and owned by
\* alice; there is no document 3.  bob is a collaborator of document 2
DocumentsTable == {[id |-> 1, is_public |-> TRUE, owner_id |-> 0],
                   [id |-> 2, is_public |-> FALSE, owner_id |-> 1]}
CollaboratorsTable == {[document_id |-> 2, user_id |-> 2]}

\* token.replace("Bearer ", "") if token.startswith("Bearer ") else token
CleanToken(token) ==
    IF token # <<>> /\ Head(token) = "Bearer "
    THEN SelectSeq(token, LAMBDA piece : piece # "Bearer ")
    ELSE token

\* auth.verify_token: the username of the token, <<>> for None
VerifyToken(token) ==
    IF \E u \in SignedSubjects : token = JwtOf(u)
    THEN SubSeq(token, 2, Len(token))
    ELSE <<>>

\* auth.get_user_by_username: the id of the user, 0 for None
GetUserByUsername(username) ==
    IF \E u \in UsersTable : u.username = username
    THEN (CHOOSE u \in UsersTable : u.username = username).id
    ELSE 0

\* websocket_endpoint, lines 132-148: the id of the user, 0 for None
ResolveUser(token) ==
    IF token = <<>> THEN 0
    ELSE LET username == VerifyToken(CleanToken(token))
         IN  IF username # <<>> /\ Head(username) # "guest_"
             THEN GetUserByUsername(username) ELSE 0

\* an endpoint that does not look at the collaborators table
IsCollaboratorAnyone(document_id, user) == TRUE

\* websocket_endpoint, lines 170-173: the collaborator row exists
IsCollaborator(document_id, user) ==
    [document_id |-> document_id, user_id |-> user] \in CollaboratorsTable

\* websocket.close(code, reason) as the client sees it
CloseReasonMsg(code, reason) == [type |-> "close", code |-> code, reason |-> reason]

\* websocket_endpoint, lines 150-178: the close message, or <<>> when the request
\* goes on to manager.connect
Admission(document_id, token) ==
    LET user == ResolveUser(token)
        rows == {r \in DocumentsTable : r.id = document_id}
        document == CHOOSE r \in rows : TRUE
    IN  IF rows = {} THEN <<CloseReasonMsg(4004, "Document not found")>>
        ELSE IF ~document.is_public /\ user = 0
        THEN <<CloseReasonMsg(4003, "Authentication required")>>
        ELSE IF /\ ~document.is_public /\ user # 0 /\ document.owner_id # user
                /\ ~IsCollaborator(document_id, user)
        THEN <<CloseReasonMsg(4003, "Access denied")>>
        ELSE <<>>

----------------------------------------------------------------------------
(* Actions of the connection manager, its clients and the event loop *)

mgrIdle == UNCHANGED <<seqVars, convVars, optVars, optConvVars, legacy, posVars>>

\* the operations the client of socket c sends as its n-th message; "op_id" is a
\* key of the client's own that apply_remote does not read
ClientInsert(id, tag) ==
    [type |-> "insert", position |-> 0, op_id |-> tag,
     node |-> [id |-> id, char |-> <<"a">>, visible |-> TRUE, timestamp |-> 0]]
ClientDelete(id, tag) == [type |-> "delete", node_id |-> id, position |-> 0, op_id |-> tag]
AcceptableOps(tag) == {ClientInsert(IdA, tag), ClientDelete(IdA, tag)}
RefusedOps(tag) ==
    {[type |-> "cursor", op_id |-> tag],
     [type |-> "insert", op_id |-> tag],
     [type |-> "insert", op_id |-> tag, node |-> [id |-> IdA]],
     [type |-> "insert", op_id |-> tag, node |-> [char |-> <<"a">>]],
     [type |-> "delete", op_id |-> tag, position |-> 0]}

ClientOps(tag) == AcceptableOps(tag) \cup RefusedOps(tag)

\* the task of socket c waits in receive_text
Waiting(M, c) == M.stack[c] = <<EndpointFrame("loop")>>
\* the task of socket c is suspended inside the manager's coroutine fn
Inside(M, c, fn) ==
    /\ Len(M.stack[c]) >= 2
    /\ M.stack[c][2].fn = fn

\* a client opens a socket to document d and is admitted by websocket_endpoint:
\* manager.connect runs to its first await
Open(c, d) ==
    /\ srv.sock[c] = "new"
    /\ srv.stack[c] = <<>>
    /\ srv' = Exec([srv EXCEPT !.stack[c] = <<EndpointFrame("receive"), ConnectFrame(d)>>], c)
    /\ mgrIdle

\* manager.connect resumes after an await
ConnectStep(c) ==
    /\ Inside(srv, c, "connect")
    /\ srv' = Exec(srv, c)
    /\ mgrIdle

\* receive_text returns an operation message and handle_message runs to its first await
ReceiveOperation(c, operation) ==
    /\ Waiting(srv, c)
    /\ srv.sock[c] = "open"
    /\ srv' = Exec(Push([srv EXCEPT !.sent[c] = @ + 1,
                                    !.stack[c] = <<EndpointFrame("receive")>>],
                        c, HandleFrame(operation)), c)
    /\ mgrIdle

\* _handle_operation resumes after an await
HandleStep(c) ==
    /\ Inside(srv, c, "handle_operation")
    /\ srv' = Exec(srv, c)
    /\ mgrIdle

\* the client closes its socket
ClientClose(c) ==
    /\ srv.sock[c] = "open"
    /\ Cardinality({x \in Conns : srv.sock[x] = "client_closed"}) < MaxCloses
    /\ srv' = [srv EXCEPT !.sock[c] = "client_closed"]
    /\ mgrIdle

\* receive_text raises WebSocketDisconnect: the endpoint's finally calls disconnect
EndpointDisconnect(c) ==
    /\ Waiting(srv, c)
    /\ srv.sock[c] = "client_closed"
    /\ srv' = Exec(Push([srv EXCEPT !.stack[c] = <<EndpointFrame("finally_done")>>],
                        c, DisconnectFrame(c)), c)
    /\ mgrIdle

\* the endpoint's disconnect resumes after an await
DisconnectStep(c) ==
    /\ Inside(srv, c, "disconnect")
    /\ srv' = Exec(srv, c)
    /\ mgrIdle

\* _delayed_save: the finally clause
SaveTaskFinally(M, id) ==
    LET d == M.tasks[id].document_id
    IN  [M EXCEPT !.tasks = DictDel(@, id),
                  !.save_tasks = IF d \in DOMAIN @ THEN DictDel(@, d) ELSE @]

\* a task created by _schedule_save runs for the first time, up to asyncio.sleep
SaveTaskStart(id) ==
    /\ id \in DOMAIN srv.tasks
    /\ srv.tasks[id].state = "created"
    /\ srv' = [srv EXCEPT !.tasks[id] = [@ EXCEPT !.state = "sleeping",
                                                  !.deadline = now + save_delay]]
    /\ mgrIdle

\* the sleep of _delayed_save is over: the document is saved
SaveTaskFire(id) ==
    /\ id \in DOMAIN srv.tasks
    /\ srv.tasks[id].state = "sleeping"
    /\ now >= srv.tasks[id].deadline
    /\ srv' = SaveTaskFinally(SaveDocumentState(srv, srv.tasks[id].document_id), id)
    /\ mgrIdle

\* a cancelled _delayed_save gets its CancelledError
SaveTaskCancelled(id) ==
    /\ id \in DOMAIN srv.tasks
    /\ srv.tasks[id].state = "cancelled"
    /\ srv' = SaveTaskFinally(srv, id)
    /\ mgrIdle

\* one second passes; the event loop has nothing that is ready to run
Idle(M) ==
    /\ \A c \in Conns : M.stack[c] = <<>> \/ Waiting(M, c)
    /\ \A id \in DOMAIN M.tasks : /\ M.tasks[id].state = "sleeping"
                                  /\ M.tasks[id].deadline > now
SecondPasses ==
    /\ now < MgrMaxTime
    /\ Idle(srv)
    /\ now' = now + 1
    /\ UNCHANGED <<seqVars, convVars, crdt, copy, deferred, optConvVars, mgrVars, posVars>>

\* the sockets are opened in the order of their numbers, each while no other
\* task is inside a coroutine of the manager
OpenInTurn(c, d) ==
    /\ \A x \in Conns \ {c} : /\ (x < c => srv.sock[x] # "new")
                               /\ (srv.stack[x] = <<>> \/ Waiting(srv, x))
    /\ Open(c, d)

\* three clients edit document 1; a message that the server refuses is the first
\* message of the run, and the second client stays while the others may leave
NextMgr ==
    \/ \E c \in Conns : OpenInTurn(c, 1)
    \/ \E c \in Conns : ConnectStep(c)
    \/ \E c \in Conns : \E operation \in ClientOps(<<c, srv.sent[c] + 1>>) :
           /\ SumOver(Conns, srv.sent) < MaxMsgs
           /\ (operation \in RefusedOps(<<c, srv.sent[c] + 1>>) => SumOver(Conns, srv.sent) = 0)
           /\ ReceiveOperation(c, operation)
    \/ \E c \in Conns : HandleStep(c)
    \/ \E c \in {1, 3} : ClientClose(c)
    \/ \E c \in Conns : EndpointDisconnect(c)
    \/ \E c \in Conns : DisconnectStep(c)

SpecMgr == Init /\ [][NextMgr]_vars

\* max_connections_per_document - 1 other clients connect to document d, one
\* after the other and each to the end of connect, while no followed socket is
\* attached to d or inside connect; they stay and send nothing
ConnectQuiet(d) ==
    /\ srv.quiet[d] = 0
    /\ \A c \in Conns : srv.stack[c] = <<>>
    /\ AttachedCount(srv, d) = 0
    /\ srv' = [InitializeDocumentCrdt(TouchActive(srv, d), d, <<103, 95, 113>>, now)
                  EXCEPT !.quiet[d] = max_connections_per_document - 1]
    /\ mgrIdle

\* two clients edit document 1 and do not leave; socket 1 sends a burst of
\* operations; seconds pass and the save tasks run
NextSave ==
    \/ \E c \in {1, 2} : OpenInTurn(c, 1)
    \/ \E c \in {1, 2} : ConnectStep(c)
    \/ \E operation \in AcceptableOps(<<1, srv.sent[1] + 1>>) :
           srv.sent[1] < MaxBurst /\ ReceiveOperation(1, operation)
    \/ HandleStep(1)
    \/ \E id \in 1..MaxBurst : SaveTaskStart(id)
    \/ \E id \in 1..MaxBurst : SaveTaskFire(id)
    \/ \E id \in 1..MaxBurst : SaveTaskCancelled(id)
    \/ SecondPasses

SpecSave == Init /\ [][NextSave]_vars

\* the tokens clients present: none, garbage, a signed token with or without
\* the "Bearer " piece in front
ClientTokens ==
    {<<>>, <<"garbage">>}
    \cup {JwtOf(u) : u \in SignedSubjects \ {UserAlice}}
    \cup {<<"Bearer ">> \o JwtOf(u) : u \in {UserAlice, UserCarol}}

\* websocket_endpoint is called for socket c with a document id and a token; it
\* closes the socket or goes on to manager.connect, which runs to its first
\* await.  The sockets arrive in the order of their numbers, each while no other
\* task is inside a coroutine of the manager
Arrive(c, d, token) ==
    /\ srv.sock[c] = "new"
    /\ srv.stack[c] = <<>>
    /\ \A x \in Conns \ {c} : /\ (x < c => srv.sock[x] # "new")
                               /\ (srv.stack[x] = <<>> \/ Waiting(srv, x))
    /\ LET refusal == Admission(d, token)
           M == [srv EXCEPT !.request[c] = <<[document_id |-> d, token |-> token,
                                              connect |-> refusal = <<>>]>>]
       IN  srv' = IF refusal # <<>>
                  THEN [Deliver(M, c, refusal[1]) EXCEPT !.sock[c] = "server_closed"]
                  ELSE Exec([M EXCEPT !.stack[c] =
                                 <<EndpointFrame("receive"), ConnectFrame(d)>>], c)
    /\ mgrIdle

\* three clients ask for documents 1, 2 and 3 with any token
NextAdmit ==
    \/ \E c \in Conns, d \in Docs \cup {3}, token \in ClientTokens : Arrive(c, d, token)
    \/ \E c \in Conns : ConnectStep(c)

SpecAdmit == Init /\ [][NextAdmit]_vars

\* the object _initialize_document_crdt loads for document f
LoadedCrdt(M, f, site_id, t) ==
    IF M.db[f] # <<>> THEN FromDict(M.db[f][1], t) ELSE OptNew(site_id, t)

\* max_cached_crdts - 1 documents of FillerDocs are visited one after the other,
\* each by another client that connects to the empty room and leaves again,
\* while no task is inside a coroutine of the manager and the cache has room for
\* them: connect caches the document, disconnect saves it and keeps it cached
VisitFillers ==
    LET n == max_cached_crdts - 1
        loaded == [i \in 1..n |-> [id |-> 100 + i,
                                   crdt |-> LoadedCrdt(srv, 100 + i, <<103, 95, 113>>, now)]]
    IN  /\ \A f \in FillerDocs : ~IsCached(srv, f)
        /\ Len(srv.document_crdts) + n <= max_cached_crdts
        /\ \A c \in Conns : srv.stack[c] = <<>> \/ Waiting(srv, c)
        /\ srv' = [srv EXCEPT !.document_crdts = @ \o loaded,
                              !.set_id = @ + n,
                              !.db = [f \in DOMAIN @ |->
                                         IF f \in 101..(100 + n)
                                         THEN <<ToDict(loaded[f - 100].crdt)>> ELSE @[f]]]
        /\ mgrIdle

\* three clients connect to two documents while the cache fills up
NextCache ==
    \/ VisitFillers
    \/ \E c \in Conns, d \in Docs : Open(c, d)
    \/ \E c \in Conns : ConnectStep(c)

SpecCache == Init /\ [][NextCache]_vars

\* three clients connect to a document that has, or gets, 49 connections
NextCap ==
    \/ ConnectQuiet(1)
    \/ \E c \in Conns : Open(c, 1)
    \/ \E c \in Conns : ConnectStep(c)

SpecCap == Init /\ [][NextCap]_vars

\* two clients edit document 1, either may leave; seconds pass and the save
\* tasks run.  An operation arrives only while its save can still fall due
NextFresh ==
    \/ \E c \in {1, 2} : OpenInTurn(c, 1)
    \/ \E c \in {1, 2} : ConnectStep(c)
    \/ \E c \in {1, 2} : \E operation \in AcceptableOps(<<c, srv.sent[c] + 1>>) :
           /\ SumOver(Conns, srv.sent) < MaxMsgs
           /\ now + save_delay <= MgrMaxTime
           /\ ReceiveOperation(c, operation)
    \/ \E c \in {1, 2} : HandleStep(c)
    \/ \E c \in {1, 2} : ClientClose(c)
    \/ \E c \in {1, 2} : EndpointDisconnect(c)
    \/ \E c \in {1, 2} : DisconnectStep(c)
    \/ \E id \in 1..MaxBurst : SaveTaskStart(id)
    \/ \E id \in 1..MaxBurst : SaveTaskFire(id)
    \/ \E id \in 1..MaxBurst : SaveTaskCancelled(id)
    \/ SecondPasses

\* a coroutine of the manager is ready to resume, or an endpoint's receive_text
\* is about to raise WebSocketDisconnect
CoroutineReady ==
    \E c \in {1, 2} : \/ \E fn \in {"connect", "handle_operation", "disconnect"} :
                            Inside(srv, c, fn)
                      \/ (Waiting(srv, c) /\ srv.sock[c] = "client_closed")

\* a save task runs, or a second passes while nothing is ready
TimerStep ==
    \/ \E id \in 1..MaxBurst : SaveTaskStart(id) \/ SaveTaskFire(id) \/ SaveTaskCancelled(id)
    \/ SecondPasses

\* the event loop runs what is ready: no coroutine stays ready for ever, a save
\* task that can run does, and time passes; clients need not act
FairLoop ==
    /\ []<>(~CoroutineReady)
    /\ WF_vars(TimerStep)

SpecFresh == Init /\ [][NextFresh]_vars /\ FairLoop

\* the database stops answering: every query and commit raises
StoreFails ==
    /\ srv.store = "up"
    /\ srv.failures = <<>>
    /\ srv' = [srv EXCEPT !.store = "down"]
    /\ mgrIdle

\* the database answers again, after a save has failed
StoreRecovers ==
    /\ srv.store = "down"
    /\ srv.failures # <<>>
    /\ srv' = [srv EXCEPT !.store = "up"]
    /\ mgrIdle

\* two clients open document 1 and stay, socket 1 edits; the database is down
\* for a while; seconds pass and the save tasks run
NextRetry ==
    \/ \E c \in {1, 2} : OpenInTurn(c, 1)
    \/ \E c \in {1, 2} : ConnectStep(c)
    \/ \E operation \in AcceptableOps(<<1, srv.sent[1] + 1>>) :
           /\ srv.sent[1] < MaxMsgs
           /\ now + save_delay <= MgrMaxTime
           /\ ReceiveOperation(1, operation)
    \/ HandleStep(1)
    \/ \E id \in 1..MaxBurst : SaveTaskStart(id)
    \/ \E id \in 1..MaxBurst : SaveTaskFire(id)
    \/ \E id \in 1..MaxBurst : SaveTaskCancelled(id)
    \/ SecondPasses
    \/ StoreFails
    \/ StoreRecovers

SpecRetry == Init /\ [][NextRetry]_vars /\ FairLoop

\* the text frames that are no operation: text that json.loads rejects, a
\* message of a type handle_message does not know, a ping
OtherFrames ==
    {[json |-> FALSE, type |-> "None"], [json |-> TRUE, type |-> "bogus"],
     [json |-> TRUE, type |-> "ping"]}

\* OptimizedConnectionManager.handle_message for such a frame: JSONDecodeError
\* and an unknown type are logged, a ping is answered
HandleOther(M, c, frame) ==
    LET M1 == [M EXCEPT !.sent[c] = @ + 1,
                        !.unhandled = Append(@, [origin |-> c, frame |-> frame])]
    IN  IF frame.json /\ frame.type = "ping" /\ CanSend(M, c)
        THEN [M1 EXCEPT !.inbox[c] = Append(@, [type |-> "pong"])]
        ELSE M1

\* receive_text returns a frame that is no operation; handle_message returns
\* without raising and the endpoint waits for the next frame
ReceiveOther(c, frame) ==
    /\ Waiting(srv, c)
    /\ srv.sock[c] = "open"
    /\ srv.sent[c] < MaxMsgs
    /\ srv' = HandleOther(srv, c, frame)
    /\ mgrIdle

\* two clients open document 1 and stay; they send operations and frames that
\* are none; seconds pass and the save tasks run
NextProtocol ==
    \/ \E c \in {1, 2} : OpenInTurn(c, 1)
    \/ \E c \in {1, 2} : ConnectStep(c)
    \/ \E operation \in AcceptableOps(<<1, srv.sent[1] + 1>>) :
           /\ srv.sent[1] < MaxMsgs
           /\ now + save_delay <= MgrMaxTime
           /\ ReceiveOperation(1, operation)
    \/ HandleStep(1)
    \/ \E c \in {1, 2}, frame \in OtherFrames : ReceiveOther(c, frame)
    \/ \E id \in 1..MaxBurst : SaveTaskStart(id)
    \/ \E id \in 1..MaxBurst : SaveTaskFire(id)
    \/ \E id \in 1..MaxBurst : SaveTaskCancelled(id)
    \/ SecondPasses

SpecProtocol == Init /\ [][NextProtocol]_vars

RECURSIVE SaveAllFrom(_, _)
\* shutdown_event: _save_document_state for the keys of document_crdts from
\* the i-th on; the save tasks are not touched
SaveAllFrom(M, i) ==
    IF i > Len(M.document_crdts) THEN M
    ELSE SaveAllFrom(SaveDocumentState(M, M.document_crdts[i].id), i + 1)

\* the process shuts down while no task is inside a coroutine of the manager
ShutdownEvent ==
    /\ ~srv.stopped
    /\ \A c \in Conns : Len(srv.stack[c]) <= 1
    /\ srv' = [SaveAllFrom(srv, 1) EXCEPT !.stopped = TRUE]
    /\ mgrIdle

\* two clients open document 1, socket 1 edits and may leave, seconds pass and
\* the save tasks run, until the process shuts down
NextShutdown ==
    \/ ~srv.stopped /\ \E c \in {1, 2} : OpenInTurn(c, 1)
    \/ ~srv.stopped /\ \E c \in {1, 2} : ConnectStep(c)
    \/ \E operation \in AcceptableOps(<<1, srv.sent[1] + 1>>) :
           /\ ~srv.stopped
           /\ srv.sent[1] < MaxMsgs
           /\ now + save_delay <= MgrMaxTime
           /\ ReceiveOperation(1, operation)
    \/ ~srv.stopped /\ HandleStep(1)
    \/ ~srv.stopped /\ \E id \in 1..MaxBurst : SaveTaskStart(id)
    \/ ~srv.stopped /\ \E id \in 1..MaxBurst : SaveTaskFire(id)
    \/ ~srv.stopped /\ \E id \in 1..MaxBurst : SaveTaskCancelled(id)
    \/ ~srv.stopped /\ SecondPasses
    \/ ShutdownEvent

SpecShutdown == Init /\ [][NextShutdown]_vars

\* the n-th long insert of a client: a node of its own with BigLen characters
BigInsert(n) ==
    [type |-> "insert", position |-> 0, op_id |-> <<1, n>>,
     node |-> [id |-> <<97, 58, 48 + n, 58, 48>>, char |-> <<BigRun>>, visible |-> TRUE,
               timestamp |-> 0]]

\* one client opens document 1, inserts long strings, each while the save tasks
\* sleep, and leaves; seconds pass and the save tasks run
NextEvict ==
    \/ OpenInTurn(1, 1)
    \/ ConnectStep(1)
    \/ /\ srv.sent[1] < MaxBig
       /\ \A id \in DOMAIN srv.tasks : srv.tasks[id].state = "sleeping"
       /\ ReceiveOperation(1, BigInsert(srv.sent[1] + 1))
    \/ HandleStep(1)
    \/ \E id \in 1..MaxBig : SaveTaskStart(id)
    \/ \E id \in 1..MaxBig : SaveTaskFire(id)
    \/ \E id \in 1..MaxBig : SaveTaskCancelled(id)
    \/ SecondPasses
    \/ ClientClose(1)
    \/ EndpointDisconnect(1)

SpecEvict == Init /\ [][NextEvict]_vars

\* the row of document d is deleted (routers/documents.py) while a socket that
\* websocket_endpoint admitted to it is inside connect
DocumentDeleted(d) ==
    /\ d \in DOMAIN srv.db
    /\ \E c \in Conns : /\ Inside(srv, c, "connect")
                         /\ srv.stack[c][2].document_id = d
                         /\ srv.stack[c][2].pc = "accept"
    /\ srv' = [srv EXCEPT !.db = DictDel(@, d)]
    /\ mgrIdle

\* three clients are admitted in the order of their numbers, each while no other
\* task is inside manager.connect, two to document 1 and the third to
\* document 1 or 2, while the rows exist, and leave; document 1 may have 49
\* connections, and either row may be deleted
NextRegistry ==
    \/ 1 \in DOMAIN srv.db /\ ConnectQuiet(1)
    \/ \E c \in Conns, d \in Docs :
           /\ d \in DOMAIN srv.db
           /\ \A x \in Conns \ {c} : /\ (x < c => srv.sock[x] # "new")
                                      /\ ~Inside(srv, x, "connect")
           /\ (c < 3 => d = 1)
           /\ Open(c, d)
    \/ \E c \in Conns : ConnectStep(c)
    \/ \E d \in Docs : DocumentDeleted(d)
    \/ \E c \in Conns : ClientClose(c)
    \/ \E c \in Conns : EndpointDisconnect(c)
    \/ \E c \in Conns : DisconnectStep(c)

SpecRegistry == Init /\ [][NextRegistry]_vars

----------------------------------------------------------------------------
(* Actions of the ConnectionManager of ws_manager.py *)

legacyIdle == UNCHANGED <<seqVars, convVars, optVars, optConvVars, srv, posVars>>

\* the n-th insert operation the clients of this manager send: a node of its own
\* position with the given value
LegacyInsert(c, n, value) ==
    CRDTOperation("insert", CRDTNode(Position(<<n>>, SiteOf(c)), value, TRUE), SiteOf(c))

\* a client connects to document d
LegacyConnect(c, d) ==
    /\ c \notin DOMAIN legacy.connection_info
    /\ legacy.inbox[c] = <<>>
    /\ legacy' = LegacyConnectBody(legacy, c, d)
    /\ legacyIdle

\* an attached client sends an operation
LegacyOperation(c, operation) ==
    /\ c \in DOMAIN legacy.connection_info
    /\ legacy' = LegacyHandleCrdtOperation(legacy, c, operation, now)
    /\ legacyIdle

\* a client's socket is closed and disconnect runs
LegacyDisconnect(c) ==
    /\ c \in DOMAIN legacy.connection_info
    /\ legacy' = LegacyDisconnectBody(legacy, c)
    /\ legacyIdle

\* a task created by _schedule_save runs for the first time, up to asyncio.sleep
LegacyTaskStart(id) ==
    /\ id \in DOMAIN legacy.tasks
    /\ legacy.tasks[id].state = "created"
    /\ legacy' = [legacy EXCEPT !.tasks[id] = [@ EXCEPT !.state = "sleeping",
                                                        !.deadline = now + LegacySaveDelay]]
    /\ legacyIdle

\* ConnectionManager._delayed_save after its sleep
LegacyTaskFire(id) ==
    /\ id \in DOMAIN legacy.tasks
    /\ legacy.tasks[id].state = "sleeping"
    /\ now >= legacy.tasks[id].deadline
    /\ LET d == legacy.tasks[id].document_id
           recent == /\ d \in DOMAIN legacy.last_save_times
                     /\ now - legacy.last_save_times[d] >= LegacySaveDelay
       IN  legacy' = SaveTaskFinally(IF recent THEN LegacySaveDocumentState(legacy, d)
                                     ELSE legacy, id)
    /\ legacyIdle

\* a cancelled _delayed_save gets its CancelledError
LegacyTaskCancelled(id) ==
    /\ id \in DOMAIN legacy.tasks
    /\ legacy.tasks[id].state = "cancelled"
    /\ legacy' = SaveTaskFinally(legacy, id)
    /\ legacyIdle

\* one second passes while no save task of this manager is ready to run
LegacySecondPasses ==
    /\ now < MgrMaxTime
    /\ \A id \in DOMAIN legacy.tasks : /\ legacy.tasks[id].state = "sleeping"
                                       /\ legacy.tasks[id].deadline > now
    /\ now' = now + 1
    /\ UNCHANGED <<seqVars, convVars, crdt, copy, deferred, optConvVars, mgrVars, posVars>>

\* every save task of this manager has run as far as it can
LegacySettled ==
    \A id \in DOMAIN legacy.tasks : legacy.tasks[id].state = "sleeping"

\* the client of socket c goes away: sends to it fail from now on
LegacyClientGone(c) ==
    /\ c \in DOMAIN legacy.connection_info
    /\ c \notin legacy.gone
    /\ legacy' = [legacy EXCEPT !.gone = @ \cup {c}]
    /\ legacyIdle

\* the endpoint task of a socket whose client is gone calls disconnect
LegacyEndpointDisconnect(c) ==
    /\ c \in DOMAIN legacy.connection_info
    /\ c \in legacy.gone
    /\ c \notin legacy.acquiring
    /\ legacy' = LegacyDisconnectCall(legacy, c, c)
    /\ legacyIdle

\* the cleanup task wakes up from its sleep of a minute
LegacyCleanup ==
    /\ CleanupTask \notin legacy.acquiring
    /\ \A q \in Conns : Len(legacy.inbox[q]) < MaxMsgs + 2
    /\ legacy' = LegacyCleanupRound(legacy)
    /\ legacyIdle

\* three clients attach to documents 1 and 2, go away, and their endpoints
\* disconnect them; the cleanup task runs in between
NextLock ==
    \/ \E c \in Conns, d \in Docs :
           /\ \A x \in 1..(c - 1) : x \in DOMAIN legacy.connection_info \/ x \in legacy.gone
           /\ c \notin legacy.gone
           /\ legacy.cleanup_lock = 0
           /\ LegacyConnect(c, d)
    \/ \E c \in Conns : LegacyClientGone(c)
    \/ \E c \in Conns : LegacyEndpointDisconnect(c)
    \/ LegacyCleanup

SpecLock == Init /\ [][NextLock]_vars

\* the cursor and presence messages of the clients: no payload, a payload, a
\* payload that names another site, a payload that is not an object
PresenceData ==
    {[type |-> kind] : kind \in {"cursor", "presence"}}
    \cup {[type |-> "cursor", cursor |-> v] :
              v \in {[position |-> 3], [position |-> 3, site_id |-> SiteOf(2)],
                     [not_object |-> 3]}}
    \cup {[type |-> "presence", presence |-> [typing |-> TRUE]]}

\* an attached client sends a cursor or presence message
LegacyPresence(c, data) ==
    /\ c \in DOMAIN legacy.connection_info
    /\ Len(legacy.received) < MaxMsgs
    /\ legacy' = LegacyHandlePresence(legacy, c, data.type, data)
    /\ legacyIdle

\* three clients attach to document 1 one after the other, the first inserts a
\* character, all send cursor and presence messages, the third leaves
NextPresence ==
    \/ \E c \in Conns :
           /\ \A x \in 1..(c - 1) : x \in DOMAIN legacy.connection_info
           /\ LegacySettled
           /\ LegacyConnect(c, 1)
    \/ /\ Len(legacy.handled) < MaxClock
       /\ LegacySettled
       /\ LegacyOperation(1, LegacyInsert(1, 1, <<"x">>))
    \/ \E c \in Conns, data \in PresenceData : LegacyPresence(c, data)
    \/ LegacySettled /\ LegacyDisconnect(3)
    \/ LegacyTaskStart(1)
    \/ LegacyTaskFire(1)
    \/ DOMAIN legacy.tasks # {} /\ LegacySecondPasses

SpecPresence == Init /\ [][NextPresence]_vars

\* two clients are attached to document 1, the first inserts long strings, the
\* second listens; both may leave.  A client acts when the event
\* loop has run the save tasks that were ready
NextGate ==
    \/ \E c \in {1, 2} : LegacySettled /\ LegacyConnect(c, 1)
    \/ /\ Len(legacy.handled) < MaxBig
       /\ LegacySettled
       /\ LegacyOperation(1, LegacyInsert(1, Len(legacy.handled) + 1, <<BigRun>>))
    \/ \E c \in {1, 2} : LegacySettled /\ LegacyDisconnect(c)
    \/ \E id \in 1..MaxBig : LegacyTaskStart(id)
    \/ \E id \in 1..MaxBig : LegacyTaskFire(id)
    \/ \E id \in 1..MaxBig : LegacyTaskCancelled(id)
    \/ LegacySecondPasses

SpecGate == Init /\ [][NextGate]_vars

----------------------------------------------------------------------------
(* Properties of SequenceCRDT *)

\* text with value inserted at index (from 0)
InsertAt(text, index, value) ==
    SubSeq(text, 1, index) \o value \o SubSeq(text, index + 1, Len(text))

\* text without the character at index (from 0)
RemoveAt(text, index) ==
    SubSeq(text, 1, index) \o SubSeq(text, index + 2, Len(text))

\* every operation a peer could send about a node the replica knows
AnyOps(ns) ==
    {CRDTOperation(t, [n EXCEPT !.visible = v], SiteB) :
        t \in {"insert", "delete"}, n \in KnownNodes(ns), v \in BOOLEAN}

\* the sentinels are where and what the constructor made them
SentinelsIntact(ns) == ns[1] = BeginNode /\ ns[Len(ns)] = EndNode

\* C1: two replicas that have processed the same set of operations, in any two
\* orders, from a fresh state, show the same text.
C1_ConvergenceSeq ==
    convDone[1] = convDone[2] => GetText(convNodes[1]) = GetText(convNodes[2])

\* C4: applying an operation twice leaves the node list (positions, values,
\* visible flags), hence the text, that applying it once leaves; a replayed
\* insert leaves exactly one node with its position.
C4_Idempotence ==
    \A op \in AnyOps(nodes) :
        LET once == ApplyRemote(nodes, op)
            twice == ApplyRemote(once, op)
        IN  /\ twice = once
            /\ GetText(twice) = GetText(once)
            /\ op.type = "insert" =>
                  Cardinality(Matches(twice, op.node.position)) = 1

\* C4 witness: an insert has been delivered and its node is in the list, so the
\* replays that the invariant quantifies over hit an existing node
C4_Witness ==
    /\ last.op = "apply_remote"
    /\ Matches(nodes, NodeB.position) # {}
    /\ Matches(nodes, NodeC.position) # {}
    /\ clock = 1

\* C5: once a character node is invisible, no step (local_insert, local_delete,
\* apply_remote, merge_with) makes it visible again.  Stated for the character
\* nodes only; the sentinels are the subject of C11.
C5_TombstonesPermanent ==
    [][\A i \in 1..Len(nodes) :
          (nodes[i].value # <<>> /\ ~nodes[i].visible) =>
              \A j \in Matches(nodes', nodes[i].position) : ~nodes'[j].visible]_vars

\* C7: a local_insert at a valid index, whatever the random identifiers, makes a
\* position strictly between its two neighbours' and puts the value at that
\* index of the text.  Stated for states whose sentinels are intact.
C7_LocalInsertBetween ==
    [][\A index \in 0..VisibleLength(nodes), value \in LocalValues :
          (SentinelsIntact(nodes) /\ LocalInsert(index, value)) =>
              /\ PosLT(InsertPos1(nodes, index), last'.ret.node.position)
              /\ PosLT(last'.ret.node.position, InsertPos2(nodes, index))
              /\ GetText(nodes') = InsertAt(GetText(nodes), index, value)]_vars

\* C8: a local_delete at a valid index makes exactly the index-th visible node
\* invisible, changes no other node, returns a delete operation with that node's
\* position, and the text loses the character at that index.
C8_LocalDeleteExact ==
    [][\A index \in 0..(VisibleLength(nodes) - 1) :
          LocalDelete(index) =>
              LET i == ListIndexOfVisible(nodes, index + 1)
              IN  /\ nodes' = [nodes EXCEPT ![i].visible = FALSE]
                  /\ last'.ret.type = "delete"
                  /\ PosEQ(last'.ret.node.position, nodes[i].position)
                  /\ GetText(nodes') = RemoveAt(GetText(nodes), index)]_vars

\* C9: a local_insert with index < 0 or index > visible length, and a
\* local_delete with index < 0 or index >= visible length, raise and leave the
\* node list and the clock as they were.
C9_OutOfRangeFails ==
    [][/\ \A index \in -1..(VisibleLength(nodes) + 1), value \in LocalValues :
              (LocalInsert(index, value) /\ (index < 0 \/ index > VisibleLength(nodes)))
                  => (last'.raised /\ nodes' = nodes /\ clock' = clock)
       /\ \A index \in -1..(VisibleLength(nodes) + 1) :
              (LocalDelete(index) /\ (index < 0 \/ index >= VisibleLength(nodes)))
                  => (last'.raised /\ nodes' = nodes /\ clock' = clock)]_vars

\* C9 witness: a local_delete raised on a replica that holds visible characters
C9_Witness ==
    /\ last.op = "local_delete"
    /\ last.raised
    /\ Len(GetText(nodes)) >= 2

\* C11: after any sequence of local and remote operations the first node is
\* BEGIN and the last node is END, both invisible with empty value
C11_SentinelsFixed == SentinelsIntact(nodes)

\* a is a proper prefix of b
ProperPrefix(a, b) == Len(a) < Len(b) /\ SubSeq(b, 1, Len(a)) = a

\* C27: the comparison of Positions is a strict total order: no position is less
\* than itself, p < q and q < r give p < r, exactly one of p < q, q < p, p == q
\* holds; of two positions with the same identifier list the one with the
\* smaller site_id is the smaller, and a position whose identifier list is a
\* proper prefix of another's is the smaller
C27_StrictTotalOrder ==
    compared.lt # <<>> =>
        /\ \A i \in 1..3 : ~compared.lt[i][i]
        /\ (compared.lt[1][2] /\ compared.lt[2][3]) => compared.lt[1][3]
        /\ \A i, j \in 1..3 :
               LET p == compared.args[i]
                   q == compared.args[j]
                   holds == <<compared.lt[i][j], compared.lt[j][i], compared.eq[i][j]>>
               IN  /\ Cardinality({k \in 1..3 : holds[k]}) = 1
                   /\ (p.identifiers = q.identifiers /\ StrLT(p.site_id, q.site_id))
                          => compared.lt[i][j]
                   /\ ProperPrefix(p.identifiers, q.identifiers) => compared.lt[i][j]

\* C27 witness: the positions ([1], "A_1"), ([1], "B_1") and ([1, 0], "A") have
\* been compared: the first two differ in the site only, the third extends both
\* and has the smallest site
C27_Witness ==
    /\ compared.args = <<Position(<<1>>, SiteTag(SiteA, 1)), Position(<<1>>, SiteTag(SiteB, 1)),
                         Position(<<1, 0>>, SiteA)>>
    /\ compared.lt # <<>>
    /\ compared.lt[1][2] /\ compared.lt[2][3] /\ compared.lt[1][3]

\* the node list is strictly increasing by Position
StrictlySorted(ns) ==
    \A i, j \in 1..Len(ns) : i < j => PosLT(ns[i].position, ns[j].position)

\* C26: after any sequence of local_insert, local_delete, apply_remote and
\* merge_with on a fresh SequenceCRDT, with remote nodes of other sites, the node
\* list is strictly increasing by Position: no two nodes share a position
C26_SortedNoDuplicates == StrictlySorted(nodes)

\* C26 witness: the replica holds both remote characters, which drew the same
\* identifier, and a character of its own that local_insert has just placed
C26_Witness ==
    /\ last.op = "local_insert"
    /\ ~last.raised
    /\ Len(nodes) = 5
    /\ Matches(nodes, NodeB.position) # {}
    /\ Matches(nodes, NodeC.position) # {}

----------------------------------------------------------------------------
(* Properties of OptimizedSequenceCRDT *)

\* the visible flag an insert operation gives its node
InsertVisible(o) == IF "visible" \in DOMAIN o.node THEN o.node.visible ELSE TRUE

\* no two inserts of the set give one id two different characters or visible flags
NoConflict(S) ==
    \A o1, o2 \in S :
        (o1.type = "insert" /\ o2.type = "insert" /\ o1.node.id = o2.node.id)
            => (o1.node.char = o2.node.char /\ InsertVisible(o1) = InsertVisible(o2))

\* C2 as stated: two fresh OptimizedSequenceCRDT replicas that have applied the
\* same set of inserts and deletes with apply_remote, in whatever orders, have the
\* same get_text()
C2_ConvergenceAnySet ==
    optDone[1] = optDone[2] => OptGetText(optNodes[1]) = OptGetText(optNodes[2])

\* C2, amended: two fresh OptimizedSequenceCRDT replicas that have applied the
\* same set of inserts and deletes with apply_remote, in whatever orders, have the
\* same get_text(), provided the inserts of the set that carry the same id carry
\* the same character and visible flag
C2_ConvergenceOpt ==
    (optDone[1] = optDone[2] /\ NoConflict(optDone[1]))
        => OptGetText(optNodes[1]) = OptGetText(optNodes[2])

\* both replicas have applied two inserts and a delete; the sequence is sorted by id
C2_Witness ==
    /\ optDone[1] = {InsA, InsT, DelA}
    /\ optDone[2] = {InsA, InsT, DelA}
    /\ OptGetText(optNodes[1]) = <<"t">>
    /\ Len(optNodes[2].sequence) = 2

\* ids, chars and visible flags of the sequence, in order
NodeView(c) ==
    [i \in 1..Len(c.sequence) |->
        [id |-> c.sequence[i].id, char |-> c.sequence[i].char,
         visible |-> c.sequence[i].visible]]

\* C3: from every reachable state, apply_remote of o1 then o2 leaves the same
\* sequence (ids, chars, visible flags, order) and the same tombstone set as
\* apply_remote of o2 then o1
C3_Commutativity ==
    \A o1, o2 \in OptWireOps(crdt) :
        LET a == OptApplyRemote(OptApplyRemote(crdt, o1, now), o2, now)
            b == OptApplyRemote(OptApplyRemote(crdt, o2, now), o1, now)
        IN  NodeView(a) = NodeView(b) /\ a.tombstones = b.tombstones

\* C6: once the insert of an id has arrived after a delete that found no node of
\* that id, the node's character is not part of get_text(): the text is the text
\* of the sequence without that node, in that state and in every later one
C6_DeleteBeforeInsert ==
    \A id \in deferred :
        OptGetText(crdt) =
            OptGetText([crdt EXCEPT !.sequence = SelectSeq(@, LAMBDA n : n.id # id)])

\* C10: the object made by from_dict(to_dict(c)) has the text of c, and keeps
\* having it while both are given the same calls at the same times
C10_RoundTrip ==
    \A i \in DOMAIN copy : OptGetText(copy[i]) = OptGetText(crdt)

\* the operation insert(position, char) returns at time t
InsertOperation(c, position, char, t) ==
    [type |-> "insert", node |-> InsertNode(c, position, char, t), position |-> position]

\* C25: from every reachable state, held by replicas A and B alike, the text of A
\* after insert(position, char) is the text of B after apply_remote of the
\* operation that the insert returned, for every position within the text
C25_LocalRemoteAgree ==
    \A position \in 0..Len(OptGetText(crdt)), char \in LocalValues :
        OptGetText(OptApplyRemote(crdt, InsertOperation(crdt, position, char, now), now))
            = OptGetText(OptInsert(crdt, position, char, now))

\* C30: compaction is safe: a call that drops nodes from the sequence drops only
\* nodes that are older than the compaction age, and afterwards the re-delivery
\* of the insert of a dropped node, an operation applied before the compaction,
\* does not change get_text()
C30_CompactionSafe ==
    [][\A i \in 1..Len(crdt.sequence) :
          LET n == crdt.sequence[i]
              op == [type |-> "insert", node |-> [n EXCEPT !.visible = TRUE]]
          IN  (\A j \in 1..Len(crdt'.sequence) : crdt'.sequence[j].id # n.id) =>
                  /\ n.timestamp <= now' - TombstoneMaxAge
                  /\ OptGetText(OptApplyRemote(crdt', op, now')) = OptGetText(crdt')]_vars

\* the times at which _compact is called on the state reached: now, and after
\* the compaction interval and the tombstone age have passed
CompactionTimes ==
    {now, now + MinCompactionInterval, now + TombstoneMaxAge, now + TombstoneMaxAge + 1}

\* the ids of the nodes of c that are not in d
DroppedIds(c, d) ==
    {c.sequence[i].id : i \in {j \in 1..Len(c.sequence) :
                                  \A k \in 1..Len(d.sequence) : d.sequence[k] # c.sequence[j]}}

\* _compact called on c at time t leaves get_text() as it was, keeps every node
\* with visible = True, in order, and removes from tombstones only ids of nodes
\* it dropped
CompactionKeeps(c, t) ==
    LET after == Compact(c, t)
    IN  /\ OptGetText(after) = OptGetText(c)
        /\ SelectSeq(after.sequence, LAMBDA n : n.visible)
               = SelectSeq(c.sequence, LAMBDA n : n.visible)
        /\ (c.tombstones \ after.tombstones) \subseteq DroppedIds(c, after)
        /\ after.tombstones \subseteq c.tombstones

\* no two nodes of the sequence carry the same id
UniqueIds(c) ==
    \A i, j \in 1..Len(c.sequence) : c.sequence[i].id = c.sequence[j].id => i = j

----------------------------------------------------------------------------
(* Properties of OptimizedConnectionManager *)

\* the positions of the operation messages for op_id in what a client received
OpMsgsFor(inbox, op_id) ==
    {k \in 1..Len(inbox) : /\ inbox[k].type = "operation"
                           /\ inbox[k].operation.op_id = op_id}

\* the call of _handle_operation that a record belongs to has not returned yet
InProgress(e) ==
    \E k \in 1..Len(srv.stack[e.origin]) :
        /\ srv.stack[e.origin][k].fn = "handle_operation"
        /\ srv.stack[e.origin][k].operation.op_id = e.operation.op_id

\* C12 (Delivery): once _handle_operation has returned for an operation it
\* accepted from connection c, every other connection that was attached with an
\* open socket at acceptance and still has it open has received exactly one
\* operation message for it, and c has received none.
C12_Delivery ==
    \A i \in DOMAIN srv.handled :
        LET e == srv.handled[i]
        IN  (e.accepted /\ ~InProgress(e)) =>
                /\ \A q \in e.peers :
                       srv.sock[q] = "open" =>
                           Cardinality(OpMsgsFor(srv.inbox[q], e.operation.op_id)) = 1
                /\ OpMsgsFor(srv.inbox[e.origin], e.operation.op_id) = {}

\* C13 (Uniform broadcast order): two operations accepted for one document from
\* different connections reach every peer that receives both in the order in
\* which the server applied them.
C13_UniformOrder ==
    \A i, j \in DOMAIN srv.handled :
        LET a == srv.handled[i]
            b == srv.handled[j]
        IN  (/\ i < j /\ a.accepted /\ b.accepted
             /\ a.origin # b.origin /\ a.document_id = b.document_id) =>
                \A q \in Conns :
                    LET pa == OpMsgsFor(srv.inbox[q], a.operation.op_id)
                        pb == OpMsgsFor(srv.inbox[q], b.operation.op_id)
                    IN  (pa # {} /\ pb # {}) => Least(pa) < Least(pb)

\* C14 (Per-connection order): the operations of one socket are applied in the
\* order the socket received them, every peer receives their messages in that
\* order, and when a later one is applied the handler of the earlier one has
\* returned.
C14_PerConnectionOrder ==
    \A i, j \in DOMAIN srv.handled :
        LET a == srv.handled[i]
            b == srv.handled[j]
        IN  (a.origin = b.origin /\ a.operation.op_id[2] < b.operation.op_id[2]) =>
                /\ i < j
                /\ ~InProgress(a)
                /\ \A q \in Conns :
                       LET pa == OpMsgsFor(srv.inbox[q], a.operation.op_id)
                           pb == OpMsgsFor(srv.inbox[q], b.operation.op_id)
                       IN  (pa # {} /\ pb # {}) => \A x \in pa, y \in pb : x < y

\* a peer has received both operations of a socket that sent two
C14_Witness ==
    \E i, j \in DOMAIN srv.handled : \E q \in Conns :
        /\ srv.handled[i].origin = srv.handled[j].origin
        /\ i < j
        /\ q # srv.handled[i].origin
        /\ OpMsgsFor(srv.inbox[q], srv.handled[i].operation.op_id) # {}
        /\ OpMsgsFor(srv.inbox[q], srv.handled[j].operation.op_id) # {}

\* C15 (A duplicate is not re-broadcast): for an insert whose id was already in
\* the document's CRDT when it was submitted, no client receives an operation
\* message and _schedule_save is not called.
C15_DuplicateNotBroadcast ==
    \A i \in DOMAIN srv.handled :
        LET e == srv.handled[i]
        IN  (e.operation.type = "insert" /\ e.known) =>
                /\ \A q \in Conns : OpMsgsFor(srv.inbox[q], e.operation.op_id) = {}
                /\ ~e.scheduled

\* the operations the claim lists as refused: unknown type, insert without node,
\* id or char, delete without node id
Refusable(operation) ==
    \/ operation.type \notin {"insert", "delete"}
    \/ /\ operation.type = "insert"
       /\ \/ "node" \notin DOMAIN operation
          \/ "id" \notin DOMAIN operation.node
          \/ "char" \notin DOMAIN operation.node
    \/ /\ operation.type = "delete"
       /\ "node_id" \notin DOMAIN operation
       /\ "node" \notin DOMAIN operation

\* C16 (Rejected operations have no effect): for a refused operation the sender,
\* if its socket is open, has the error message, no client has an operation
\* message for it, sequence and tombstones of the CRDT did not change and
\* _schedule_save was not called.
C16_RefusedNoEffect ==
    \A i \in DOMAIN srv.handled :
        LET e == srv.handled[i]
        IN  Refusable(e.operation) =>
                /\ e.open => \E k \in 1..Len(srv.inbox[e.origin]) :
                                 srv.inbox[e.origin][k] = ErrorMsg("Failed to apply operation")
                /\ \A q \in Conns : OpMsgsFor(srv.inbox[q], e.operation.op_id) = {}
                /\ ~e.changed
                /\ ~e.scheduled

\* a refused operation was handled while a peer with an open socket was attached
\* and the CRDT held a node
C16_Witness ==
    \E i \in DOMAIN srv.handled :
        /\ Refusable(srv.handled[i].operation)
        /\ srv.handled[i].open
        /\ srv.handled[i].peers # {}
        /\ \E k \in 1..Len(srv.inbox[srv.handled[i].origin]) :
               srv.inbox[srv.handled[i].origin][k] = ErrorMsg("Failed to apply operation")
        /\ Len(CachedCrdt(srv, srv.handled[i].document_id).sequence) > 0

\* C17 (Per-document capacity): at most max_connections_per_document connections
\* are attached to one document, also while connects run concurrently, and a
\* connection that was closed with code 4009 is not attached.
C17_DocumentCapacity ==
    \A d \in DOMAIN srv.active_connections :
        /\ AttachedCount(srv, d) <= max_connections_per_document
        /\ \A c \in srv.active_connections[d].members :
               \A k \in 1..Len(srv.inbox[c]) : srv.inbox[c][k] # CloseMsg(4009)

\* C18 (Eviction only of idle rooms): a document that _initialize_document_crdt
\* removes from the full cache has no attached connection.
C18_EvictIdleOnly ==
    \A i \in DOMAIN srv.evictions : srv.evictions[i].attached = 0

\* the identity the claim speaks of: a guest has no token, an invalid one, a
\* guest's, or one that names nobody in the users table; otherwise the user
RegisteredAs(token) ==
    LET bare == IF token # <<>> /\ token[1] = "Bearer " THEN Tail(token) ELSE token
    IN  {u \in UsersTable : bare = <<"jwt">> \o u.username}
MayEnter(document, token) ==
    \/ document.is_public
    \/ \E u \in RegisteredAs(token) :
          \/ document.owner_id = u.id
          \/ [document_id |-> document.id, user_id |-> u.id] \in CollaboratorsTable

\* C19 (Access control at admission): a request for a missing document is closed
\* with 4004, a guest's request for a private document with 4003 Authentication
\* required, another user's who is neither owner nor collaborator with 4003 Access
\* denied, and none of them reaches manager.connect; every other request does.
C19_AccessControl ==
    \A c \in Conns :
        srv.request[c] # <<>> =>
            LET req == srv.request[c][1]
                inside == Inside(srv, c, "connect") /\ srv.stack[c][2].pc = "accept"
                rows == {r \in DocumentsTable : r.id = req.document_id}
                document == CHOOSE r \in rows : TRUE
                refused(code, reason) ==
                    /\ ~req.connect
                    /\ srv.inbox[c] = <<CloseReasonMsg(code, reason)>>
                    /\ srv.stack[c] = <<>>
                    /\ c \notin DOMAIN srv.connection_info
                    /\ \A d \in DOMAIN srv.active_connections :
                           c \notin srv.active_connections[d].members
            IN  IF rows = {} THEN refused(4004, "Document not found")
                ELSE IF MayEnter(document, req.token)
                THEN req.connect /\ (inside \/ c \in DOMAIN srv.connection_info)
                ELSE IF RegisteredAs(req.token) = {}
                THEN refused(4003, "Authentication required")
                ELSE refused(4003, "Access denied")

\* bob, a collaborator, is attached to the private document 2 while carol and a
\* guest were refused
C19_Witness ==
    /\ 2 \in DOMAIN srv.active_connections
    /\ \E c \in srv.active_connections[2].members :
           srv.request[c][1].token = JwtOf(UserBob)
    /\ \E c \in Conns : srv.inbox[c] = <<CloseReasonMsg(4003, "Access denied")>>
    /\ \E c \in Conns : srv.inbox[c] = <<CloseReasonMsg(4003, "Authentication required")>>

\* the records of the operations accepted for document d, in order
AcceptedFor(d) ==
    SelectSeq(srv.handled, LAMBDA e : e.document_id = d /\ e.accepted)
\* the commits of document d, in order
WritesOf(d) == SelectSeq(srv.writes, LAMBDA w : w.document_id = d)

\* nothing is left to run: no task inside a coroutine, no save task pending
Quiescent ==
    /\ \A c \in Conns : srv.stack[c] = <<>> \/ Waiting(srv, c)
    /\ srv.tasks = <<>>

\* C20 (Debounced save): after a burst of accepted operations on document 1, each
\* less than save_delay after the previous one and each followed by
\* _schedule_save, and quiescence, the document was written exactly once, no
\* earlier than save_delay after the last operation, with the state of the
\* document's CRDT.
C20_DebouncedSave ==
    LET ops == AcceptedFor(1)
        w == WritesOf(1)
    IN  (/\ Quiescent
         /\ ops # <<>>
         /\ \A i \in DOMAIN ops : ops[i].scheduled
         /\ \A i \in 1..(Len(ops) - 1) : ops[i + 1].time - ops[i].time < save_delay) =>
            /\ Len(w) = 1
            /\ w[1].time >= ops[Len(ops)].time + save_delay
            /\ w[1].state = ToDict(CachedCrdt(srv, 1))

\* the text of the CRDT that _initialize_document_crdt would load for document d
StoredText(M, d) ==
    IF M.db[d] = <<>> THEN <<>> ELSE OptGetText(FromDict(M.db[d][1], now))

\* the stored state of document d lags behind the room's
Stale(d) ==
    /\ IsCached(srv, d)
    /\ StoredText(srv, d) # OptGetText(CachedCrdt(srv, d))

\* C21: every operation accepted for a document is eventually reflected in the
\* stored state: whenever the stored CRDT of document 1 deserializes to another
\* text than the room's CRDT, a later moment comes at which the two texts are
\* equal, whatever connects, disconnects and broadcasts happen around the operation
C21_PersistenceFresh == Stale(1) ~> ~Stale(1)

\* the save tasks of document d that will still call _save_document_state
PendingSaves(d) ==
    {id \in DOMAIN srv.tasks : /\ srv.tasks[id].document_id = d
                               /\ srv.tasks[id].state \in {"created", "sleeping"}}

\* C23: when the last connection of a document has disconnected, the stored
\* state equals the in-memory state and no save for the document remains
\* pending: while document 1 has no entry in active_connections, its stored
\* state is the cached CRDT's to_dict() and no save task of it is left to run
C23_FinalFlush ==
    1 \notin DOMAIN srv.active_connections =>
        /\ (IsCached(srv, 1) => srv.db[1] = <<ToDict(CachedCrdt(srv, 1))>>)
        /\ PendingSaves(1) = {}

\* C31: once _handle_operation has returned for an accepted operation that met
\* an attached peer whose socket no longer takes a send, every other peer that
\* was attached with an open socket and still has it open has received the
\* operation message once, the failing connection is neither in the set of
\* active_connections nor in connection_info, and _schedule_save was called
C31_BrokenPeerContained ==
    \A i \in DOMAIN srv.handled :
        LET e == srv.handled[i]
        IN  (e.accepted /\ ~InProgress(e) /\ e.closed # {}) =>
                /\ \A q \in e.peers :
                       srv.sock[q] = "open" =>
                           Cardinality(OpMsgsFor(srv.inbox[q], e.operation.op_id)) = 1
                /\ \A b \in e.closed :
                       /\ b \notin DOMAIN srv.connection_info
                       /\ \A d \in DOMAIN srv.active_connections :
                              b \notin srv.active_connections[d].members
                /\ e.scheduled

\* C28: at every moment the save tasks of a document that are neither cancelled
\* nor finished are at most one, and that one is the task recorded in
\* save_tasks[document_id]: no unrecorded timer is left to fire
C28_OnePendingTimer ==
    \A d \in Docs :
        /\ Cardinality(PendingSaves(d)) <= 1
        /\ \A id \in PendingSaves(d) :
               d \in DOMAIN srv.save_tasks /\ srv.save_tasks[d] = id

\* C29: a failed write is retried: once a save of document 1 has failed and the
\* store answers again, a later moment comes at which the stored state has the
\* text of the room's CRDT, whether or not a new operation arrives
C29_FailedSaveRetried ==
    (srv.failures # <<>> /\ srv.store = "up" /\ Stale(1)) ~> ~Stale(1)

\* disconnect(c) was called for the attached socket c and has returned
Disconnected(c) ==
    /\ \E k \in 1..Len(srv.inbox[c]) : srv.inbox[c][k].type = "initial_state"
    /\ c \notin DOMAIN srv.connection_info
    /\ \A x \in Conns : \A k \in 1..Len(srv.stack[x]) :
           srv.stack[x][k].fn = "disconnect" => srv.stack[x][k].ws # c

\* the connections that were attached when c was removed and still are, with an
\* open socket: they joined before c did, or c was told that they joined
Remaining(c) ==
    {q \in DOMAIN srv.connection_info \ {c} :
        /\ srv.sock[q] = "open"
        /\ \/ q < c
           \/ \E k \in 1..Len(srv.inbox[c]) : srv.inbox[c][k] = UserJoinedMsg(SiteOf(q))}

UserLeftMsgsFor(inbox, c) == {k \in 1..Len(inbox) : inbox[k] = UserLeftMsg(SiteOf(c))}

\* C24 (Disconnect broadcast): once disconnect has returned for a connection c,
\* every remaining connection with an open socket has received exactly one
\* user_left message with c's site_id, and c is in no set of active_connections,
\* so that no later broadcast sends to it.
C24_DisconnectBroadcast ==
    \A c \in Conns :
        Disconnected(c) =>
            /\ \A q \in Remaining(c) :
                   Cardinality(UserLeftMsgsFor(srv.inbox[q], c)) = 1
            /\ \A d \in DOMAIN srv.active_connections :
                   c \notin srv.active_connections[d].members

----------------------------------------------------------------------------
(* Properties of ConnectionManager *)

\* the nodes the room of document d holds
LegacyRoomPositions(d) ==
    IF d \in DOMAIN legacy.document_crdts
    THEN {legacy.document_crdts[d].nodes[i].position :
             i \in 1..Len(legacy.document_crdts[d].nodes)}
    ELSE {}

\* C22: when the serialized CRDT is over the 5,242,880-byte limit the in-memory
\* CRDT stays in the cache: every operation of an attached connection was
\* applied (none was answered with "Document not initialized"), and while the
\* connection that sent an insert stays attached the node is in the room's CRDT
C22_SizeGateServes ==
    \A i \in 1..Len(legacy.handled) :
        LET e == legacy.handled[i]
        IN  /\ e.outcome = "applied"
            /\ (e.origin \in DOMAIN legacy.connection_info
                   => e.operation.node.position \in LegacyRoomPositions(e.document_id))

\* C32: handling a cursor or presence message changes neither the document's
\* CRDT nor last_save_times nor save_tasks nor the save tasks themselves; the
\* sender receives no copy of the payload, and when the payload is an object (or
\* absent) every other subscriber of the document receives it, stamped with the
\* sender's site_id, as its next message
C32_PresenceLeavesDocument ==
    [][Len(legacy'.received) > Len(legacy.received) =>
          LET e == legacy'.received[Len(legacy'.received)]
              c == e.origin
              d == legacy.connection_info[c].document_id
              kind == e.data.type
              payload == IF kind \in DOMAIN e.data THEN e.data[kind] ELSE <<>>
              forwarded == PresenceMsg(kind, [Stamped(payload, SiteOf(c)) EXCEPT
                                                 !.site_id = legacy.connection_info[c].site_id])
          IN  /\ legacy'.document_crdts = legacy.document_crdts
              /\ legacy'.last_save_times = legacy.last_save_times
              /\ legacy'.save_tasks = legacy.save_tasks
              /\ legacy'.tasks = legacy.tasks
              /\ legacy'.db = legacy.db
              /\ \A k \in (Len(legacy.inbox[c]) + 1)..Len(legacy'.inbox[c]) :
                     legacy'.inbox[c][k].type = "error"
              /\ IsDict(payload) =>
                     /\ legacy'.inbox[c] = legacy.inbox[c]
                     /\ \A q \in legacy.active_connections[d] \ {c} :
                            legacy'.inbox[q] = Append(legacy.inbox[q], forwarded)
              /\ \A q \in Conns \ legacy.active_connections[d] :
                     legacy'.inbox[q] = legacy.inbox[q]]_vars

\* C32 as stated: every cursor or presence message, whatever its payload, is
\* forwarded to every other subscriber of the document
C32_ForwardsEveryPayload ==
    [][Len(legacy'.received) > Len(legacy.received) =>
          LET e == legacy'.received[Len(legacy'.received)]
              d == legacy.connection_info[e.origin].document_id
          IN  \A q \in legacy.active_connections[d] \ {e.origin} :
                  /\ Len(legacy'.inbox[q]) = Len(legacy.inbox[q]) + 1
                  /\ legacy'.inbox[q][Len(legacy'.inbox[q])].type = e.data.type]_vars

\* C32 witness: a client received a cursor message that another one sent while
\* the document's CRDT held a character and a save task was pending
C32_Witness ==
    /\ legacy.received # <<>>
    /\ 1 \in DOMAIN legacy.document_crdts
    /\ Len(legacy.document_crdts[1].nodes) = 3
    /\ 1 \in DOMAIN legacy.save_tasks
    /\ \E q \in DOMAIN legacy.connection_info :
           /\ legacy.inbox[q] # <<>>
           /\ legacy.inbox[q][Len(legacy.inbox[q])].type = "cursor"
           /\ legacy.inbox[q][Len(legacy.inbox[q])].cursor.site_id # SiteOf(q)
           /\ "position" \in DOMAIN legacy.inbox[q][Len(legacy.inbox[q])].cursor

\* C33: a frame that is not valid JSON or has an unknown type makes the server
\* send an error message to the connection that sent it and to no other, changes
\* no CRDT, schedules no save, and leaves the connection attached
C33_ProtocolErrorReported ==
    [][(Len(srv'.unhandled) > Len(srv.unhandled)
          /\ srv'.unhandled[Len(srv'.unhandled)].frame.type # "ping") =>
          LET c == srv'.unhandled[Len(srv'.unhandled)].origin
          IN  /\ Len(srv'.inbox[c]) = Len(srv.inbox[c]) + 1
              /\ srv'.inbox[c][Len(srv'.inbox[c])].type = "error"
              /\ \A q \in Conns \ {c} : srv'.inbox[q] = srv.inbox[q]
              /\ srv'.document_crdts = srv.document_crdts
              /\ srv'.save_tasks = srv.save_tasks
              /\ srv'.tasks = srv.tasks
              /\ c \in DOMAIN srv'.connection_info]_vars

\* C34: once shutdown_event has run, the stored state of every cached document
\* is the state of its CRDT, and no save task is left that will still run
C34_ShutdownFlush ==
    srv.stopped =>
        /\ \A i \in 1..Len(srv.document_crdts) :
               LET d == srv.document_crdts[i].id
               IN  srv.db[d] = <<ToDict(CachedCrdt(srv, d))>>
        /\ \A id \in DOMAIN srv.tasks : srv.tasks[id].state \notin {"created", "sleeping"}

\* C35: while a document has attached connections, document_crdts holds exactly
\* one CRDT for it
C35_OneCrdtPerDocument ==
    \A d \in DOMAIN srv.active_connections :
        srv.active_connections[d].members # {} =>
            Cardinality({i \in 1..Len(srv.document_crdts) : srv.document_crdts[i].id = d}) = 1

\* C36: every call of ConnectionManager.disconnect returns: no task is
\* suspended in the acquire of cleanup_lock while the lock is held by that
\* task itself, which is a wait that never ends
C36_DisconnectReturns ==
    legacy.cleanup_lock \notin legacy.acquiring

\* the snapshot of an initial_state message with the operations of the list
\* ops applied to it from the i-th on
RECURSIVE ApplyAll(_, _, _)
ApplyAll(c, ops, i) ==
    IF i > Len(ops) THEN c ELSE ApplyAll(OptApplyRemote(c, ops[i], now), ops, i + 1)

\* what the client of socket q holds: the snapshot it received first, the
\* operations it received after it and the operations of its own that the server
\* accepted
ClientView(q) ==
    LET received == SelectSeq(srv.inbox[q], LAMBDA m : m.type = "operation")
        own == SelectSeq(srv.handled, LAMBDA e : e.origin = q /\ e.accepted)
    IN  ApplyAll(ApplyAll(FromDict(srv.inbox[q][1].crdt_state, now),
                          [k \in 1..Len(received) |-> received[k].operation], 1),
                 [k \in 1..Len(own) |-> own[k].operation], 1)

\* C37: while no operation is being handled, a connection that was admitted, has
\* its socket open and is attached to a cached document received initial_state
\* as its first message, and that snapshot with the operations it received
\* afterwards (and its own) gives the text of the server's CRDT
C37_NoGapAfterSnapshot ==
    \A q \in DOMAIN srv.connection_info :
        LET d == srv.connection_info[q].document_id
        IN  (/\ Waiting(srv, q)
             /\ srv.sock[q] = "open"
             /\ IsCached(srv, d)
             /\ \A i \in DOMAIN srv.handled : ~InProgress(srv.handled[i])) =>
                /\ srv.inbox[q] # <<>>
                /\ srv.inbox[q][1].type = "initial_state"
                /\ OptGetText(ClientView(q)) = OptGetText(CachedCrdt(srv, d))

\* C38: a document that is no longer in the cache has every insert that the
\* server accepted for it in its stored state
C38_EvictionKeepsEdits ==
    \A i \in DOMAIN srv.handled :
        LET e == srv.handled[i]
        IN  (e.accepted /\ e.operation.type = "insert" /\ ~InProgress(e)
               /\ ~IsCached(srv, e.document_id)) =>
                /\ srv.db[e.document_id] # <<>>
                /\ \E k \in 1..Len(srv.db[e.document_id][1].sequence) :
                       srv.db[e.document_id][1].sequence[k].id = e.operation.node.id

\* a connect of socket c or a disconnect for it has been called and has not returned
RegistryBusy(c) ==
    \E x \in Conns : \E k \in 1..Len(srv.stack[x]) :
        \/ srv.stack[x][k].fn = "connect" /\ x = c
        \/ srv.stack[x][k].fn = "disconnect" /\ srv.stack[x][k].ws = c

\* socket c is in active_connections[d]
InSet(c, d) ==
    d \in DOMAIN srv.active_connections /\ c \in srv.active_connections[d].members

\* C40: while neither connect nor disconnect runs for a socket, it is in
\* active_connections[d] exactly if connection_info holds it with document_id d;
\* a socket closed with 4008 or 4009 is in neither, and a socket that connect
\* closed with 4000 is in neither once its endpoint task has ended
C40_RegistryConsistent ==
    \A c \in Conns :
        /\ ~RegistryBusy(c) =>
               \A d \in Docs :
                   InSet(c, d) <=> (/\ c \in DOMAIN srv.connection_info
                                    /\ srv.connection_info[c].document_id = d)
        /\ (\E k \in 1..Len(srv.inbox[c]) : srv.inbox[c][k] \in {CloseMsg(4008), CloseMsg(4009)})
               => (c \notin DOMAIN srv.connection_info /\ \A d \in Docs : ~InSet(c, d))
        /\ (srv.sock[c] = "server_closed" /\ srv.stack[c] = <<>>)
               => (c \notin DOMAIN srv.connection_info /\ \A d \in Docs : ~InSet(c, d))

\* C40 witness: one socket was refused for capacity, another was closed with
\* 4000 because its document was gone and its endpoint has ended, a third is
\* attached
C40_Witness ==
    /\ \E c \in Conns : \E k \in 1..Len(srv.inbox[c]) : srv.inbox[c][k] = CloseMsg(4009)
    /\ \E c \in Conns : /\ srv.stack[c] = <<>>
                         /\ \E k \in 1..Len(srv.inbox[c]) : srv.inbox[c][k] = CloseMsg(4000)
    /\ \E c \in Conns : /\ Waiting(srv, c)
                         /\ c \in DOMAIN srv.connection_info
                         /\ InSet(c, srv.connection_info[c].document_id)

====
